---- MODULE Spec2Model ----
(***************************************************************************)
(* Model of the LCZ temperature analysis engine:                           *)
(*   temperature_calculator.py  TemperatureCalculator                      *)
(*   app.py                     calculate_scenario (HTTP handler), the     *)
(*                              lazily initialized global lcz_processor    *)
(*                              and the handlers that read it              *)
(*   lcz_processor.py           LCZProcessor.simulate_lcz_change,          *)
(*                              _interpret_change, load_kml,               *)
(*                              get_lcz_at_point, assign_lcz_to_points,    *)
(*                              calculate_lcz_statistics                   *)
(*   scenario_simulator.py      ScenarioSimulator                          *)
(*   lcz_processor_simple.py    LCZProcessor.parse_kml, process,           *)
(*                              get_bounds, get_center                     *)
(*   lcz_raster_processor.py    LCZRasterProcessor.find_closest_lcz,       *)
(*                              create_grid_features, get_bounds,          *)
(*                              get_center                                 *)
(*                                                                         *)
(* Real numbers (temperatures in degrees Celsius, areas in km2, rates) are *)
(* exact rationals [n, d] in lowest terms with d > 0.  Python's binary     *)
(* floating point is abstracted to exact arithmetic, except for round(),   *)
(* whose result on a decimal tie depends on the binary representation of   *)
(* its argument and is therefore chosen nondeterministically.              *)
(*                                                                         *)
(* A behaviour is one call: Init draws the objects' state and the pending  *)
(* call, and the action of the called operation runs the whole handler and *)
(* stores what it returns or raises in ret.  Two specifications have       *)
(* longer behaviours: SpecSession, calls made one after the other on the   *)
(* same catalog, and SpecApp, requests served by interleaving threads.     *)
(***************************************************************************)
EXTENDS Integers, Sequences, FiniteSets, TLC

VARIABLES
    call,   \* the call being made: [op |-> name of the operation, ...arguments]
    ret,    \* what the call returned or raised; [type |-> "pending"] before it ran
    gdf,    \* the zone catalog (LCZProcessor.gdf, or self.features of the
            \* other backends): a sequence of zone rows, or a frame or list
    stats,  \* the statistics DataFrame: a sequence of rows [lcz_class, mean_temp]
    temperature_data,   \* the caller's dict zone_id -> temperature given to
                        \* calculate_bulk_temperature_change
    lcz_processor,  \* app.py's global: None, or a reference into heap
    heap,           \* the processor objects created by the application
    requests,       \* per request being served: handler, position, locals
    log             \* history: the initializations of the application, or
                    \* the calls of a session

\* the state of the serving application
appVars == <<lcz_processor, heap, requests, log>>

\* the state of the scenarios of one call or of a session of calls
callVars == <<call, ret, gdf, stats, temperature_data>>

vars == <<call, ret, gdf, stats, temperature_data, appVars>>

\* outside the scenarios of the application and of the bulk change their
\* variables stay empty
NoApplication ==
    /\ temperature_data = <<>>
    /\ lcz_processor = <<>>
    /\ heap = <<>>
    /\ requests = <<>>
    /\ log = <<>>

(***************************************************************************)
(* Exact rational arithmetic standing for Python float arithmetic.         *)
(***************************************************************************)
Abs(x) == IF x < 0 THEN -x ELSE x

RECURSIVE GCD(_, _)
GCD(a, b) == IF b = 0 THEN a ELSE GCD(b, a % b)

\* n/d in lowest terms, d > 0
Q(n, d) ==
    LET g == GCD(Abs(n), d)
    IN  [n |-> n \div g, d |-> d \div g]

RatAdd(x, y) == Q(x.n * y.d + y.n * x.d, x.d * y.d)
RatSub(x, y) == Q(x.n * y.d - y.n * x.d, x.d * y.d)
RatMul(x, y) == Q(x.n * y.n, x.d * y.d)
RatDivInt(x, k) == Q(x.n, x.d * k)
RatNeg(x) == [n |-> -x.n, d |-> x.d]
RatAbs(x) == [n |-> Abs(x.n), d |-> x.d]
RatLt(x, y) == x.n * y.d < y.n * x.d
RatLe(x, y) == x.n * y.d <= y.n * x.d
RatGt(x, y) == RatLt(y, x)
Zero == Q(0, 1)

\* round(x, 2): the nearest multiple of 0.01; on a decimal tie the float that
\* stands for x lies on either side, so tieUp picks the neighbour.
Round2(x, tieUp) ==
    LET s == x.n * 100
        q == s \div x.d
        r == s % x.d
    IN  IF 2 * r < x.d THEN Q(q, 100)
        ELSE IF 2 * r > x.d THEN Q(q + 1, 100)
        ELSE IF tieUp THEN Q(q + 1, 100) ELSE Q(q, 100)

\* Python values
None == [type |-> "None"]
Pending == [type |-> "pending"]
ValueError(msg) == [type |-> "ValueError", msg |-> msg]
\* an optional argument: <<>> is an absent key or None, <<v>> is the value v
Opt(S) == {<<>>} \cup {<<v>> : v \in S}

(***************************************************************************)
(* config.py: LCZ_CLASSES, keyed by the integers 1..17                     *)
(***************************************************************************)
\* thermal_offset of LCZ 1..17, in tenths of a degree
ThermalOffsetTenths ==
    <<25, 28, 23, 18, 20, 15, 12, 22, 5, 26, -15, -8, -3, 0, 20, 10, -20>>

LCZ_CLASSES ==
    [k \in DOMAIN ThermalOffsetTenths |->
        [thermal_offset |-> Q(ThermalOffsetTenths[k], 10)]]

(***************************************************************************)
(* temperature_calculator.py                                               *)
(***************************************************************************)
\* a faulty variant of the delta: the offsets added
TemperatureDeltaWrongSign(from_offset, to_offset) == RatAdd(to_offset, from_offset)

\* delta = to_offset - from_offset
TemperatureDelta(from_offset, to_offset) == RatSub(to_offset, from_offset)

\* a faulty variant of the new temperature: the delta not applied
NewTemperatureNoDelta(base_temperature, delta) == base_temperature

\* new_temperature = base_temperature + delta
NewTemperature(base_temperature, delta) == RatAdd(base_temperature, delta)

\* the direction and effect words of the explanation
Explanation(delta) ==
    IF RatGt(delta, Zero)
    THEN [direction |-> "increase", effect |-> "warming", by |-> RatAbs(delta)]
    ELSE IF RatLt(delta, Zero)
    THEN [direction |-> "decrease", effect |-> "cooling", by |-> RatAbs(delta)]
    ELSE [direction |-> "remain the same", effect |-> "no change", by |-> RatAbs(delta)]

\* TemperatureCalculator.calculate_temperature_delta; tieNew and tieBase are the
\* sides round() takes on a tie for new_temperature and base_temperature
calculate_temperature_delta(from_lcz, to_lcz, base_temperature, tieNew, tieBase) ==
    IF from_lcz \notin DOMAIN LCZ_CLASSES \/ to_lcz \notin DOMAIN LCZ_CLASSES
    THEN None
    ELSE
        LET from_offset == LCZ_CLASSES[from_lcz].thermal_offset
            to_offset == LCZ_CLASSES[to_lcz].thermal_offset
            delta == TemperatureDelta(from_offset, to_offset)
            new_temperature == NewTemperature(base_temperature, delta)
        IN  [type |-> "dict",
             new_temperature |-> Round2(new_temperature, tieNew),
             delta |-> Round2(delta, FALSE),
             from_lcz |-> from_lcz,
             to_lcz |-> to_lcz,
             base_temperature |-> Round2(base_temperature, tieBase),
             explanation |-> Explanation(delta)]

(***************************************************************************)
(* app.py: POST /api/calculate-scenario                                    *)
(***************************************************************************)
calculate_scenario(data, tieNew, tieBase) ==
    IF \E k \in {"zone_id", "from_lcz", "to_lcz", "base_temperature"} : data[k] = <<>>
    THEN [type |-> "json", success |-> FALSE, error |-> "Missing required parameters"]
    ELSE
        LET result == calculate_temperature_delta(
                data.from_lcz[1], data.to_lcz[1], data.base_temperature[1],
                tieNew, tieBase)
        IN  IF result # None
            THEN [type |-> "json", success |-> TRUE, result |-> result]
            ELSE [type |-> "json", success |-> FALSE, error |-> "Invalid LCZ classes"]

(***************************************************************************)
(* lcz_processor.py: the literature table and the pairwise simulation      *)
(***************************************************************************)
\* LCZ_TEMPERATURE_DELTA, keyed by the strings '1'..'10', 'A'..'G'
LCZ_TEMPERATURE_DELTA ==
    ("1" :> Q(45, 10)) @@ ("2" :> Q(35, 10)) @@ ("3" :> Q(28, 10)) @@
    ("4" :> Q(25, 10)) @@ ("5" :> Q(20, 10)) @@ ("6" :> Q(15, 10)) @@
    ("7" :> Q(12, 10)) @@ ("8" :> Q(22, 10)) @@ ("9" :> Q(8, 10)) @@
    ("10" :> Q(30, 10)) @@ ("A" :> Q(-15, 10)) @@ ("B" :> Q(-8, 10)) @@
    ("C" :> Q(-5, 10)) @@ ("D" :> Q(0, 10)) @@ ("E" :> Q(20, 10)) @@
    ("F" :> Q(10, 10)) @@ ("G" :> Q(-20, 10))

\* LCZ_TEMPERATURE_DELTA.get(cls, 0)
LiteratureDeltaGet(cls) ==
    IF cls \in DOMAIN LCZ_TEMPERATURE_DELTA THEN LCZ_TEMPERATURE_DELTA[cls] ELSE Zero

\* a faulty variant of the banding: -2 taken into the moderate cooling band
InterpretChangeInclusive(delta) ==
    IF RatGt(delta, Q(2, 1)) THEN "Aquecimento significativo esperado"
    ELSE IF RatGt(delta, Q(1, 2)) THEN "Aquecimento moderado esperado"
    ELSE IF RatGt(delta, Q(-1, 2)) THEN "Impacto térmico mínimo"
    ELSE IF RatLe(Q(-2, 1), delta) THEN "Resfriamento moderado esperado"
    ELSE "Resfriamento significativo esperado"

\* LCZProcessor._interpret_change
_interpret_change(delta) ==
    IF RatGt(delta, Q(2, 1)) THEN "Aquecimento significativo esperado"
    ELSE IF RatGt(delta, Q(1, 2)) THEN "Aquecimento moderado esperado"
    ELSE IF RatGt(delta, Q(-1, 2)) THEN "Impacto térmico mínimo"
    ELSE IF RatGt(delta, Q(-2, 1)) THEN "Resfriamento moderado esperado"
    ELSE "Resfriamento significativo esperado"

\* st[st['lcz_class'] == cls]: the rows of a statistics table for one class
RowsOf(st, cls) == SelectSeq(st, LAMBDA row : row.lcz_class = cls)

\* LCZProcessor.simulate_lcz_change
simulate_lcz_change(st, from_class, to_class, area_fraction) ==
    LET from_row == RowsOf(st, from_class)
        to_row == RowsOf(st, to_class)
    IN  IF Len(from_row) = 0 \/ Len(to_row) = 0
        THEN ValueError("Classe LCZ não encontrada")
        ELSE
            LET from_temp == from_row[1].mean_temp
                to_temp == to_row[1].mean_temp
                from_delta == LiteratureDeltaGet(from_class)
                to_delta == LiteratureDeltaGet(to_class)
                expected_change == RatSub(to_delta, from_delta)
                observed_change == RatMul(RatSub(to_temp, from_temp), area_fraction)
            IN  [type |-> "dict",
                 from_class |-> from_class,
                 to_class |-> to_class,
                 area_fraction |-> area_fraction,
                 from_temp |-> from_temp,
                 to_temp |-> to_temp,
                 observed_change |-> observed_change,
                 expected_change |-> expected_change,
                 interpretation |-> _interpret_change(observed_change)]

(***************************************************************************)
(* scenario_simulator.py: ScenarioSimulator, holding lcz_processor (its    *)
(* gdf) and stats                                                          *)
(***************************************************************************)
Range(seq) == {seq[i] : i \in DOMAIN seq}

\* sum(values) over a list of numbers
RECURSIVE SumSeq(_)
SumSeq(values) ==
    IF values = <<>> THEN Zero ELSE RatAdd(values[1], SumSeq(Tail(values)))

\* a faulty variant of the zone filter: every zone kept
MatchingZonesUnfiltered(g, classes) == g

\* gdf[gdf['lcz_class'].isin(classes)]
MatchingZones(g, classes) == SelectSeq(g, LAMBDA zone : zone.lcz_class \in Range(classes))

\* a faulty variant of the converted area: the rate not applied
TotalAreaUnscaled(zones, conversion_rate) ==
    SumSeq([i \in DOMAIN zones |-> zones[i].area_km2])

\* zones['area_km2'].sum() * conversion_rate
TotalArea(zones, conversion_rate) ==
    RatMul(SumSeq([i \in DOMAIN zones |-> zones[i].area_km2]), conversion_rate)

\* the loop over the source classes: the mean_temp of the first statistics row
\* of each class that has one, in list order
RECURSIVE SourceTemps(_, _)
SourceTemps(st, classes) ==
    IF classes = <<>> THEN <<>>
    ELSE LET temp == RowsOf(st, Head(classes))
         IN  (IF Len(temp) > 0 THEN <<temp[1].mean_temp>> ELSE <<>>)
                 \o SourceTemps(st, Tail(classes))

\* sum(temps) / len(temps) if temps else None
AverageTemp(temps) ==
    IF temps # <<>> THEN <<RatDivInt(SumSeq(temps), Len(temps))>> ELSE <<>>

\* a faulty variant of the target lookup: 0 for a class without statistics
TargetTempDefaultZero(st, target_class) ==
    LET target_temp == RowsOf(st, target_class)
    IN  IF Len(target_temp) > 0 THEN <<target_temp[1].mean_temp>> ELSE <<Zero>>

\* target_temp[0] if len(target_temp) > 0 else None
TargetTemp(st, target_class) ==
    LET target_temp == RowsOf(st, target_class)
    IN  IF Len(target_temp) > 0 THEN <<target_temp[1].mean_temp>> ELSE <<>>

\* a faulty variant of the change: source minus target
ExpectedChangeReversed(target_temp, avg_temp, conversion_rate) ==
    RatMul(RatSub(avg_temp, target_temp), conversion_rate)

\* (target_temp - avg_temp) * conversion_rate
ExpectedChange(target_temp, avg_temp, conversion_rate) ==
    RatMul(RatSub(target_temp, avg_temp), conversion_rate)

\* ScenarioSimulator.simulate_urbanization_scenario
simulate_urbanization_scenario(g, st, vegetation_classes, target_class, conversion_rate) ==
    LET veg_zones == MatchingZones(g, vegetation_classes)
    IN  IF Len(veg_zones) = 0
        THEN ValueError("Nenhuma zona de vegetação encontrada")
        ELSE
            LET total_area == TotalArea(veg_zones, conversion_rate)
                veg_temps == SourceTemps(st, vegetation_classes)
                avg_veg_temp == AverageTemp(veg_temps)
                target_temp == TargetTemp(st, target_class)
            IN  IF avg_veg_temp = <<>> \/ target_temp = <<>>
                THEN ValueError("Dados de temperatura insuficientes")
                ELSE [type |-> "dict",
                      scenario_type |-> "urbanization",
                      vegetation_classes |-> vegetation_classes,
                      target_class |-> target_class,
                      conversion_rate |-> conversion_rate,
                      total_area_converted_km2 |-> total_area,
                      avg_vegetation_temp |-> avg_veg_temp[1],
                      target_urban_temp |-> target_temp[1],
                      expected_temp_increase |->
                          ExpectedChange(target_temp[1], avg_veg_temp[1], conversion_rate),
                      num_zones_affected |-> Len(veg_zones)]

\* a faulty variant of simulate_greening_scenario: the change is reported as a
\* cooling magnitude, (avg_urban_temp - target_temp) * conversion_rate
GreeningScenarioCoolingMagnitude(g, st, urban_classes, target_class, conversion_rate) ==
    LET r == simulate_urbanization_scenario(g, st, urban_classes, target_class,
                                            conversion_rate)
    IN  IF r = ValueError("Nenhuma zona de vegetação encontrada")
        THEN ValueError("Nenhuma zona urbana encontrada")
        ELSE IF r.type # "dict" THEN r
        ELSE [type |-> "dict",
              scenario_type |-> "greening",
              urban_classes |-> urban_classes,
              target_class |-> target_class,
              conversion_rate |-> conversion_rate,
              total_area_converted_km2 |-> r.total_area_converted_km2,
              avg_urban_temp |-> r.avg_vegetation_temp,
              target_vegetation_temp |-> r.target_urban_temp,
              expected_temp_decrease |-> RatNeg(r.expected_temp_increase),
              num_zones_affected |-> r.num_zones_affected]

\* ScenarioSimulator.simulate_greening_scenario
simulate_greening_scenario(g, st, urban_classes, target_class, conversion_rate) ==
    LET urban_zones == MatchingZones(g, urban_classes)
    IN  IF Len(urban_zones) = 0
        THEN ValueError("Nenhuma zona urbana encontrada")
        ELSE
            LET total_area == TotalArea(urban_zones, conversion_rate)
                urban_temps == SourceTemps(st, urban_classes)
                avg_urban_temp == AverageTemp(urban_temps)
                target_temp == TargetTemp(st, target_class)
            IN  IF avg_urban_temp = <<>> \/ target_temp = <<>>
                THEN ValueError("Dados de temperatura insuficientes")
                ELSE [type |-> "dict",
                      scenario_type |-> "greening",
                      urban_classes |-> urban_classes,
                      target_class |-> target_class,
                      conversion_rate |-> conversion_rate,
                      total_area_converted_km2 |-> total_area,
                      avg_urban_temp |-> avg_urban_temp[1],
                      target_vegetation_temp |-> target_temp[1],
                      expected_temp_decrease |->
                          ExpectedChange(target_temp[1], avg_urban_temp[1], conversion_rate),
                      num_zones_affected |-> Len(urban_zones)]

(***************************************************************************)
(* The scenarios of the pairwise operations.                               *)
(***************************************************************************)
MaxTempSteps == 1
MaxDeltaQuarters == 10

\* labels given to the calculator: the table's keys and, on either side, a
\* label that is not a key
CalculatorLabels == 0 .. (Len(ThermalOffsetTenths) + 1)

\* base temperatures: around -2 and 28 degrees in steps of 0.005
BaseTemperatures ==
    {Q(b * 1000 + 5 * k, 1000) : b \in {-2, 28}, k \in -MaxTempSteps .. MaxTempSteps}

\* class labels given to the processor; "X" is not a key of the literature table
ProcessorLabels == {"2", "A", "D", "X"}

MeanTemps == {Q(24, 1), Q(29, 1), Q(30, 1)}

AreaFractions == {Q(0, 1), Q(1, 2), Q(1, 1)}

StatsRows(classes, temps) == [lcz_class : classes, mean_temp : temps]

\* calculate_lcz_statistics returns one row per class, sorted by mean_temp descending
IsStatsTable(st) ==
    /\ \A i, j \in DOMAIN st : i # j => st[i].lcz_class # st[j].lcz_class
    /\ \A i, j \in DOMAIN st : i < j => RatLe(st[j].mean_temp, st[i].mean_temp)

StatsTables(classes, temps, maxRows) ==
    UNION {{st \in [1 .. n -> StatsRows(classes, temps)] : IsStatsTable(st)} :
             n \in 0 .. maxRows}

PairStatsTables == StatsTables({"2", "A", "X"}, MeanTemps, 2)

DeltaInputs == {Q(k, 4) : k \in -MaxDeltaQuarters .. MaxDeltaQuarters}

CalculateCalls ==
    [op : {"calculate_temperature_delta"}, from_lcz : CalculatorLabels,
     to_lcz : CalculatorLabels, base_temperature : BaseTemperatures]

ScenarioRequests ==
    [op : {"calculate_scenario"},
     data : [zone_id : Opt({1}), from_lcz : Opt(CalculatorLabels),
             to_lcz : Opt(CalculatorLabels), base_temperature : Opt(BaseTemperatures)]]

LczChangeCalls ==
    [op : {"simulate_lcz_change"}, from_class : ProcessorLabels,
     to_class : ProcessorLabels, area_fraction : AreaFractions]

InterpretCalls == [op : {"_interpret_change"}, delta : DeltaInputs]

InitPair ==
    /\ NoApplication
    /\ ret = Pending
    /\ gdf = <<>>
    /\ \/ call \in CalculateCalls /\ stats = <<>>
       \/ call \in ScenarioRequests /\ stats = <<>>
       \/ call \in InterpretCalls /\ stats = <<>>
       \/ call \in LczChangeCalls /\ stats \in PairStatsTables

CalculateTemperatureDelta ==
    /\ ret = Pending
    /\ call.op = "calculate_temperature_delta"
    /\ \E tieNew, tieBase \in BOOLEAN :
         ret' = calculate_temperature_delta(
                    call.from_lcz, call.to_lcz, call.base_temperature, tieNew, tieBase)
    /\ UNCHANGED <<call, gdf, stats, temperature_data, appVars>>

CalculateScenario ==
    /\ ret = Pending
    /\ call.op = "calculate_scenario"
    /\ \E tieNew, tieBase \in BOOLEAN :
         ret' = calculate_scenario(call.data, tieNew, tieBase)
    /\ UNCHANGED <<call, gdf, stats, temperature_data, appVars>>

SimulateLczChange ==
    /\ ret = Pending
    /\ call.op = "simulate_lcz_change"
    /\ ret' = simulate_lcz_change(stats, call.from_class, call.to_class, call.area_fraction)
    /\ UNCHANGED <<call, gdf, stats, temperature_data, appVars>>

InterpretChange ==
    /\ ret = Pending
    /\ call.op = "_interpret_change"
    /\ ret' = [type |-> "str", value |-> _interpret_change(call.delta)]
    /\ UNCHANGED <<call, gdf, stats, temperature_data, appVars>>

NextPair ==
    \/ CalculateTemperatureDelta
    \/ CalculateScenario
    \/ SimulateLczChange
    \/ InterpretChange

SpecPair == InitPair /\ [][NextPair]_vars

(***************************************************************************)
(* Properties of the pairwise simulation (checked under SpecPair).         *)
(***************************************************************************)
\* a pairwise simulation by the calculator has run, directly or through the
\* HTTP handler with all four parameters present
PairCallMade ==
    /\ ret # Pending
    /\ \/ call.op = "calculate_temperature_delta"
       \/ /\ call.op = "calculate_scenario"
          /\ \A k \in {"zone_id", "from_lcz", "to_lcz", "base_temperature"} :
                call.data[k] # <<>>

PairFrom ==
    IF call.op = "calculate_temperature_delta" THEN call.from_lcz ELSE call.data.from_lcz[1]

PairTo ==
    IF call.op = "calculate_temperature_delta" THEN call.to_lcz ELSE call.data.to_lcz[1]

PairBase ==
    IF call.op = "calculate_temperature_delta"
    THEN call.base_temperature ELSE call.data.base_temperature[1]

\* what the caller gets: the result dict, or None (reported as success = false)
PairOutcome ==
    IF call.op = "calculate_temperature_delta" THEN ret
    ELSE IF ret.success THEN ret.result ELSE None

PairKnown == PairFrom \in DOMAIN LCZ_CLASSES /\ PairTo \in DOMAIN LCZ_CLASSES

\* offset(to) - offset(from) read from the table of config.py
TableDelta == Q(ThermalOffsetTenths[PairTo] - ThermalOffsetTenths[PairFrom], 10)

\* x has at most two decimals
IsCenti(x) == 100 % x.d = 0

\* C1 as stated: for every pair of classes of the offset table and every base
\* temperature t, the result has delta = offset(to) - offset(from) and
\* new_temperature = t + delta, and from = to gives delta 0 and new_temperature t.
C1_PairwiseExact ==
    (PairCallMade /\ PairKnown) =>
        /\ PairOutcome.type = "dict"
        /\ PairOutcome.delta = TableDelta
        /\ PairOutcome.new_temperature = RatAdd(PairBase, TableDelta)
        /\ PairFrom = PairTo =>
              PairOutcome.delta = Zero /\ PairOutcome.new_temperature = PairBase

\* C1 amended: delta = offset(to) - offset(from) (0 when from = to), and
\* new_temperature is t + delta rounded to two decimals: a multiple of 0.01
\* within 0.005 of t + delta, equal to t + delta when t has at most two decimals.
C1_PairwiseRounded ==
    (PairCallMade /\ PairKnown) =>
        /\ PairOutcome.type = "dict"
        /\ PairOutcome.delta = TableDelta
        /\ PairFrom = PairTo => PairOutcome.delta = Zero
        /\ IsCenti(PairOutcome.new_temperature)
        /\ RatLe(RatAbs(RatSub(PairOutcome.new_temperature, RatAdd(PairBase, TableDelta))),
                 Q(5, 1000))
        /\ IsCenti(PairBase) =>
              PairOutcome.new_temperature = RatAdd(PairBase, TableDelta)

\* C1 witness: a change between two different known classes at a base
\* temperature with three decimals has been simulated.
C1_Witness ==
    /\ PairCallMade /\ PairKnown
    /\ PairFrom # PairTo
    /\ ~IsCenti(PairBase)
    /\ PairOutcome.type = "dict"
    /\ PairOutcome.delta # Zero

\* the literature delta of a processor call, when both labels are known
LiteratureKnown(cls) == cls \in DOMAIN LCZ_TEMPERATURE_DELTA

\* C2: every operation computing a pairwise literature delta, given a from- or
\* to-label absent from its offset table, ends in a failure outcome (None, an
\* error response, a raised error) and never in a result computed with offset 0.
C2_UnknownLabelFails ==
    /\ (PairCallMade /\ ~PairKnown) => PairOutcome = None
    /\ (/\ call.op = "simulate_lcz_change"
        /\ ret # Pending
        /\ ~(LiteratureKnown(call.from_class) /\ LiteratureKnown(call.to_class)))
            => ret.type # "dict"

\* C3: the delta returned for (A, B, t) is the negation of the delta returned
\* for (B, A, t), after the rounding of the returned delta.
C3_Antisymmetry ==
    (PairCallMade /\ PairKnown) =>
        /\ PairOutcome.type = "dict"
        /\ \A tieNew, tieBase \in BOOLEAN :
              PairOutcome.delta =
                  RatNeg(calculate_temperature_delta(
                             PairTo, PairFrom, PairBase, tieNew, tieBase).delta)

\* C3 witness: a pair of different known classes with a nonzero delta.
C3_Witness ==
    /\ PairCallMade /\ PairKnown
    /\ PairOutcome.type = "dict"
    /\ RatLt(PairOutcome.delta, Zero)
    /\ PairFrom = 2 /\ PairTo = 11

InterpretDone == call.op = "_interpret_change" /\ ret # Pending

C5_ConcretePair ==
    (/\ call.op = "simulate_lcz_change"
     /\ call.from_class = "2" /\ call.to_class = "A"
     /\ call.area_fraction = Q(1, 1)
     /\ ret.type = "dict") =>
        /\ ret.expected_change = Q(-5, 1)
        /\ ret.interpretation = "Resfriamento significativo esperado"

(***************************************************************************)
(* The scenarios of the area conversions.                                  *)
(***************************************************************************)
MaxZones == 2
MaxSources == 2

ScenarioClasses == {"A", "B", "2"}

AreasKm2 == {Q(1, 1), Q(3, 2)}

ScenarioMeanTemps == {Q(24, 1), Q(30, 1)}

\* conversion rates given by callers: inside, on the ends of, and outside 0..1
ConversionRates == {Q(-1, 2), Q(0, 1), Q(1, 2), Q(1, 1), Q(3, 2)}

\* the classes of the zones of the catalog; no zone has class "B"
CatalogClasses == {"A", "2"}

ZoneRows == [lcz_class : CatalogClasses, area_km2 : AreasKm2]

Catalogs == UNION {[1 .. n -> ZoneRows] : n \in 0 .. MaxZones}

\* the class labels in Python's string order
ClassOrder == <<"2", "A", "B", "D">>

Rank(cls) == CHOOSE i \in DOMAIN ClassOrder : ClassOrder[i] = cls

\* the statistics tables given to the simulator: as calculate_lcz_statistics
\* returns them, rows of equal mean_temp in the order of their labels
ScenarioStatsTables ==
    {st \in StatsTables(ScenarioClasses, ScenarioMeanTemps, Cardinality(ScenarioClasses)) :
        \A i, j \in DOMAIN st :
            (i < j /\ st[i].mean_temp = st[j].mean_temp) =>
                Rank(st[i].lcz_class) < Rank(st[j].lcz_class)}

\* lists of source classes, each class named once
ClassLists ==
    UNION {{l \in [1 .. n -> ScenarioClasses] :
               \A i, j \in 1 .. n : i # j => l[i] # l[j]} : n \in 0 .. MaxSources}

UrbanizationCalls ==
    [op : {"simulate_urbanization_scenario"}, vegetation_classes : ClassLists,
     target_class : ScenarioClasses, conversion_rate : ConversionRates]

GreeningCalls ==
    [op : {"simulate_greening_scenario"}, urban_classes : ClassLists,
     target_class : ScenarioClasses, conversion_rate : ConversionRates]

InitScenario ==
    /\ NoApplication
    /\ ret = Pending
    /\ gdf \in Catalogs
    /\ stats \in ScenarioStatsTables
    /\ call \in UrbanizationCalls \cup GreeningCalls

SimulateUrbanizationScenario ==
    /\ ret = Pending
    /\ call.op = "simulate_urbanization_scenario"
    /\ ret' = simulate_urbanization_scenario(
                  gdf, stats, call.vegetation_classes, call.target_class,
                  call.conversion_rate)
    /\ UNCHANGED <<call, gdf, stats, temperature_data, appVars>>

SimulateGreeningScenario ==
    /\ ret = Pending
    /\ call.op = "simulate_greening_scenario"
    /\ ret' = simulate_greening_scenario(
                  gdf, stats, call.urban_classes, call.target_class,
                  call.conversion_rate)
    /\ UNCHANGED <<call, gdf, stats, temperature_data, appVars>>

NextScenario ==
    \/ SimulateUrbanizationScenario
    \/ SimulateGreeningScenario

SpecScenario == InitScenario /\ [][NextScenario]_vars

(***************************************************************************)
(* Properties of the area conversions (checked under SpecScenario).        *)
(***************************************************************************)
ScenarioDone ==
    /\ ret # Pending
    /\ call.op \in {"simulate_urbanization_scenario", "simulate_greening_scenario"}

Urbanization == call.op = "simulate_urbanization_scenario"

SourceClasses == IF Urbanization THEN call.vegetation_classes ELSE call.urban_classes

ResultSourceTemp == IF Urbanization THEN ret.avg_vegetation_temp ELSE ret.avg_urban_temp

ResultTargetTemp == IF Urbanization THEN ret.target_urban_temp ELSE ret.target_vegetation_temp

ResultChange == IF Urbanization THEN ret.expected_temp_increase ELSE ret.expected_temp_decrease

NoZoneError ==
    IF Urbanization THEN ValueError("Nenhuma zona de vegetação encontrada")
    ELSE ValueError("Nenhuma zona urbana encontrada")

\* the statistics hold a mean temperature for the class
HasStats(cls) == \E i \in DOMAIN stats : stats[i].lcz_class = cls

MeanOf(cls) == stats[CHOOSE i \in DOMAIN stats : stats[i].lcz_class = cls].mean_temp

SourcesWithStats == {cls \in Range(SourceClasses) : HasStats(cls)}

\* the catalog zones whose class is one of the source classes
MatchingIdx == {i \in DOMAIN gdf : gdf[i].lcz_class \in Range(SourceClasses)}

RECURSIVE SumMeans(_)
SumMeans(S) ==
    IF S = {} THEN Zero
    ELSE LET cls == CHOOSE x \in S : TRUE
         IN  RatAdd(MeanOf(cls), SumMeans(S \ {cls}))

RECURSIVE SumAreas(_)
SumAreas(I) ==
    IF I = {} THEN Zero
    ELSE LET i == CHOOSE x \in I : TRUE
         IN  RatAdd(gdf[i].area_km2, SumAreas(I \ {i}))

\* C6: an area conversion fails with a ValueError whenever the statistics hold
\* no mean temperature for the target class or for none of the source classes;
\* a returned result carries the target's own mean and a source temperature
\* that lies among the means of the source classes that have statistics.
C6_MissingStatsFail ==
    ScenarioDone =>
        /\ (~HasStats(call.target_class) \/ SourcesWithStats = {}) =>
              ret.type = "ValueError"
        /\ ret.type = "dict" =>
              /\ HasStats(call.target_class)
              /\ ResultTargetTemp = MeanOf(call.target_class)
              /\ \E lo, hi \in SourcesWithStats :
                    /\ RatLe(MeanOf(lo), ResultSourceTemp)
                    /\ RatLe(ResultSourceTemp, MeanOf(hi))

\* C6 witness: zones match, a source class has statistics, the target class
\* has none, and the call failed.
C6_Witness ==
    /\ ScenarioDone
    /\ MatchingIdx # {}
    /\ SourcesWithStats # {}
    /\ ~HasStats(call.target_class)
    /\ ret = ValueError("Dados de temperatura insuficientes")

\* C7: when no catalog zone has a class of the source-class list the call
\* fails with the no-zone ValueError, whatever the statistics hold; a result is
\* returned only if a zone matches and its num_zones_affected is the number of
\* matching zones.
C7_NoMatchingZoneFails ==
    ScenarioDone =>
        /\ MatchingIdx = {} => ret = NoZoneError
        /\ ret.type = "dict" =>
              /\ MatchingIdx # {}
              /\ ret.num_zones_affected = Cardinality(MatchingIdx)

\* C7 witness: a non-empty catalog without any matching zone, statistics that
\* also lack the target class, and the call failed on the zones.
C7_Witness ==
    /\ ScenarioDone
    /\ gdf # <<>>
    /\ SourceClasses # <<>>
    /\ MatchingIdx = {}
    /\ ~HasStats(call.target_class)
    /\ ret = NoZoneError

\* C8: in a returned result the source temperature is the unweighted mean of
\* the mean_temp of the source classes that have statistics, one term per
\* class, and the reported change is (target mean - source average) x rate.
C8_ExpectedChange ==
    (ScenarioDone /\ ret.type = "dict") =>
        /\ RatMul(ResultSourceTemp, Q(Cardinality(SourcesWithStats), 1))
              = SumMeans(SourcesWithStats)
        /\ ResultChange =
              RatMul(RatSub(MeanOf(call.target_class), ResultSourceTemp),
                     call.conversion_rate)

\* C8 witness: two source classes with different means, zones of different
\* areas, rate 0.5 and a nonzero change.
C8_Witness ==
    /\ ScenarioDone /\ ret.type = "dict"
    /\ Cardinality(SourcesWithStats) = 2
    /\ \E a, b \in SourcesWithStats : MeanOf(a) # MeanOf(b)
    /\ \E i, j \in DOMAIN gdf : gdf[i].area_km2 # gdf[j].area_km2
    /\ call.target_class \notin Range(SourceClasses)
    /\ call.conversion_rate = Q(1, 2)
    /\ ResultChange # Zero

\* C9: the converted area is (the sum of area_km2 over exactly the zones whose
\* class is in the source-class list) x conversion_rate.
C9_AffectedArea ==
    (ScenarioDone /\ ret.type = "dict") =>
        ret.total_area_converted_km2 =
            RatMul(SumAreas(MatchingIdx), call.conversion_rate)

\* C9 witness: a catalog with a matching zone and a zone of the target class
\* that does not match, converted at rate 0.5.
C9_Witness ==
    /\ ScenarioDone /\ ret.type = "dict"
    /\ call.conversion_rate = Q(1, 2)
    /\ MatchingIdx # {}
    /\ \E i \in DOMAIN gdf : i \notin MatchingIdx /\ gdf[i].lcz_class = call.target_class

\* C10: a result is returned only for conversion_rate in [0, 1], so the
\* converted area lies between 0 and the area of the source-class zones and the
\* magnitude of the change does not exceed |target mean - source average|.
C10_RateDomain ==
    (ScenarioDone /\ ret.type = "dict") =>
        /\ RatLe(Zero, call.conversion_rate) /\ RatLe(call.conversion_rate, Q(1, 1))
        /\ RatLe(Zero, ret.total_area_converted_km2)
        /\ RatLe(ret.total_area_converted_km2, SumAreas(MatchingIdx))
        /\ RatLe(RatAbs(ResultChange),
                 RatAbs(RatSub(ResultTargetTemp, ResultSourceTemp)))

\* urbanization applied to the arguments, catalog and statistics of a
\* greening call
AsUrbanization ==
    simulate_urbanization_scenario(gdf, stats, call.urban_classes, call.target_class,
                                   call.conversion_rate)

\* C11: for the same source-class list, target class, conversion rate, catalog
\* and statistics, urbanization and greening both fail or both return a result,
\* and the two results have the same change (expected_temp_increase =
\* expected_temp_decrease, sign included), the same converted area, the same
\* source average, the same target temperature and the same num_zones_affected;
\* scenario_type differs.  Every combination of arguments, catalog and
\* statistics occurs as a greening call, whose result is compared with what
\* urbanization returns for it.
C11_SameComputation ==
    (ScenarioDone /\ ~Urbanization) =>
        LET other == AsUrbanization
        IN  /\ (ret.type = "ValueError") <=> (other.type = "ValueError")
            /\ (ret.type = "dict") <=> (other.type = "dict")
            /\ ret.type = "dict" =>
                  /\ ret.expected_temp_decrease = other.expected_temp_increase
                  /\ ret.total_area_converted_km2 = other.total_area_converted_km2
                  /\ ret.avg_urban_temp = other.avg_vegetation_temp
                  /\ ret.target_vegetation_temp = other.target_urban_temp
                  /\ ret.num_zones_affected = other.num_zones_affected
                  /\ ret.conversion_rate = other.conversion_rate
                  /\ ret.target_class = other.target_class
                  /\ ret.urban_classes = other.vegetation_classes
                  /\ ret.scenario_type # other.scenario_type

\* C11 witness: a greening call that returned a nonzero change at rate 0.5 from
\* two source classes, where urbanization returns a result too.
C11_Witness ==
    /\ ScenarioDone /\ ~Urbanization
    /\ ret.type = "dict" /\ AsUrbanization.type = "dict"
    /\ Cardinality(SourcesWithStats) = 2
    /\ call.conversion_rate = Q(1, 2)
    /\ call.target_class \notin Range(SourceClasses)
    /\ ResultChange # Zero
    /\ ret.total_area_converted_km2 # Zero

(***************************************************************************)
(* lcz_processor.py: attribution of a class to points.  A zone geometry is *)
(* an axis-parallel rectangle; a DataFrame is the sequence of its rows in  *)
(* index order; a missing cell is NaN.                                     *)
(***************************************************************************)
NaN == [type |-> "NaN"]

Str(s) == [type |-> "str", value |-> s]

DataFrame(rows) == [type |-> "DataFrame", rows |-> rows]

\* shapely: geometry.contains(Point(lon, lat)); the point is in the interior,
\* a point of the boundary is not contained
contains(geometry, lon, lat) ==
    /\ geometry.west < lon /\ lon < geometry.east
    /\ geometry.south < lat /\ lat < geometry.north

\* the zones of the catalog that contain the point, in catalog order
ContainingZones(g, lon, lat) ==
    SelectSeq(g, LAMBDA zone : contains(zone.geometry, lon, lat))

\* LCZProcessor.get_lcz_at_point: the first zone of iterrows() that contains
\* the point, None when the loop ends
get_lcz_at_point(g, lat, lon) ==
    LET hits == ContainingZones(g, lon, lat)
    IN  IF hits # <<>> THEN Str(hits[1].lcz_class) ELSE None

\* a faulty variant of SjoinRows: an inner join, a point within no zone has no row
SjoinRowsInner(g, lon, lat) ==
    LET hits == ContainingZones(g, lon, lat)
    IN  [k \in 1..Len(hits) |-> Str(hits[k].lcz_class)]

\* the rows of gpd.sjoin(how='left', predicate='within') for one point: one row
\* for each zone the point is within, in catalog order, and one row with a
\* missing lcz_class when it is within none
SjoinRows(g, lon, lat) ==
    LET hits == ContainingZones(g, lon, lat)
    IN  IF hits = <<>> THEN <<NaN>>
        ELSE [k \in 1..Len(hits) |-> Str(hits[k].lcz_class)]

\* joined['lcz_class'].values: the rows of the points in the order of df
RECURSIVE sjoin(_, _)
sjoin(df, g) ==
    IF df = <<>> THEN <<>>
    ELSE SjoinRows(g, Head(df).lon, Head(df).lat) \o sjoin(Tail(df), g)

\* LCZProcessor.assign_lcz_to_points: df['lcz_class'] = joined['lcz_class'].values
\* on a copy of df; pandas raises ValueError when the values are not as many as
\* the rows of df
assign_lcz_to_points(g, df) ==
    LET joined == sjoin(df, g)
    IN  IF Len(joined) # Len(df)
        THEN ValueError("Length of values does not match length of index")
        ELSE DataFrame([i \in 1..Len(df) |->
                 [lat |-> df[i].lat, lon |-> df[i].lon,
                  temperature |-> df[i].temperature,
                  lcz_class |-> joined[i]]])

(***************************************************************************)
(* The scenarios of attribution: a catalog of at most MaxAttributionZones  *)
(* rectangles, which may overlap, and one call.                            *)
(***************************************************************************)
MaxAttributionZones == 2
MaxPoints == 2

\* three rectangles: the first two overlap for lon in (0, 2), the last two
\* for lon in (2, 4) and lat in (0, 2)
Rectangles ==
    {[west |-> 0, south |-> 0, east |-> 2, north |-> 2],
     [west |-> 0, south |-> 0, east |-> 4, north |-> 2],
     [west |-> 2, south |-> 0, east |-> 4, north |-> 4]}

AttributionClasses == {"2", "A"}

AttributionZones == [lcz_class : AttributionClasses, geometry : Rectangles]

AttributionCatalogs ==
    UNION {[1..n -> AttributionZones] : n \in 0..MaxAttributionZones}

\* lon 2 is on the common boundary of the first and the last rectangle,
\* lon 5 and (lon 1, lat 3) are outside every rectangle
Lons == {1, 2, 3, 5}

Lats == {1, 3}

SampleTemperatures == {24, 29}

SampleRows == [lat : Lats, lon : Lons, temperature : SampleTemperatures]

SampleFrames == UNION {[1..n -> SampleRows] : n \in 0..MaxPoints}

PointCalls == [op : {"get_lcz_at_point"}, lat : Lats, lon : Lons]

AssignCalls == [op : {"assign_lcz_to_points"}, df : SampleFrames]

InitAttribution ==
    /\ NoApplication
    /\ ret = Pending
    /\ gdf \in AttributionCatalogs
    /\ stats = <<>>
    /\ call \in PointCalls \cup AssignCalls

GetLczAtPoint ==
    /\ ret = Pending
    /\ call.op = "get_lcz_at_point"
    /\ ret' = get_lcz_at_point(gdf, call.lat, call.lon)
    /\ UNCHANGED <<call, gdf, stats, temperature_data, appVars>>

\* the method works on df.copy(): the caller's frame, call.df, is left alone
AssignLczToPoints ==
    /\ ret = Pending
    /\ call.op = "assign_lcz_to_points"
    /\ ret' = assign_lcz_to_points(gdf, call.df)
    /\ UNCHANGED <<call, gdf, stats, temperature_data, appVars>>

NextAttribution ==
    \/ GetLczAtPoint
    \/ AssignLczToPoints

SpecAttribution == InitAttribution /\ [][NextAttribution]_vars

(***************************************************************************)
(* Properties of attribution (checked under SpecAttribution).              *)
(***************************************************************************)
GetDone == ret # Pending /\ call.op = "get_lcz_at_point"

AssignDone == ret # Pending /\ call.op = "assign_lcz_to_points"

\* the indices of the catalog zones that contain the point
ZonesAt(lon, lat) == {k \in DOMAIN gdf : contains(gdf[k].geometry, lon, lat)}

\* the class of the first zone, in catalog order, that contains the point
FirstClassAt(lon, lat) ==
    gdf[CHOOSE k \in ZonesAt(lon, lat) : \A j \in ZonesAt(lon, lat) : k <= j].lcz_class

\* C12: for any catalog, overlapping zones included, assign_lcz_to_points
\* returns a frame with as many samples as its input, in the same order, with
\* lat, lon and temperature unchanged.
C12_AttributionFrame ==
    AssignDone =>
        /\ ret.type = "DataFrame"
        /\ Len(ret.rows) = Len(call.df)
        /\ \A i \in DOMAIN call.df :
              /\ ret.rows[i].lat = call.df[i].lat
              /\ ret.rows[i].lon = call.df[i].lon
              /\ ret.rows[i].temperature = call.df[i].temperature

\* C13: a point inside two or more zones gets the class of the first
\* containing zone in catalog order, from get_lcz_at_point and from
\* assign_lcz_to_points alike.
C13_FirstZoneWins ==
    /\ (GetDone /\ Cardinality(ZonesAt(call.lon, call.lat)) >= 2) =>
          ret = Str(FirstClassAt(call.lon, call.lat))
    /\ AssignDone =>
          \A i \in DOMAIN call.df :
              Cardinality(ZonesAt(call.df[i].lon, call.df[i].lat)) >= 2 =>
                  /\ ret.type = "DataFrame"
                  /\ ret.rows[i].lcz_class
                        = Str(FirstClassAt(call.df[i].lon, call.df[i].lat))
                  /\ ret.rows[i].lcz_class
                        = get_lcz_at_point(gdf, call.df[i].lat, call.df[i].lon)

\* C14: a point contained in no zone has no class: get_lcz_at_point returns
\* None and a frame returned by assign_lcz_to_points has a missing lcz_class in
\* its row; assign_lcz_to_points raises only when some sample lies in two or
\* more zones, never because samples are unattributed.
C14_GapStaysNull ==
    /\ (GetDone /\ ZonesAt(call.lon, call.lat) = {}) => ret = None
    /\ AssignDone =>
          /\ ret.type = "DataFrame" =>
                \A i \in DOMAIN call.df :
                    ZonesAt(call.df[i].lon, call.df[i].lat) = {} =>
                        ret.rows[i].lcz_class = NaN
          /\ ret.type # "DataFrame" =>
                \E i \in DOMAIN call.df :
                    Cardinality(ZonesAt(call.df[i].lon, call.df[i].lat)) >= 2

\* C14 witness: a returned frame whose first sample is in no zone of a
\* two-zone catalog and whose second sample is attributed.
C14_Witness ==
    /\ AssignDone /\ ret.type = "DataFrame"
    /\ Len(gdf) = 2 /\ Len(call.df) = 2
    /\ ZonesAt(call.df[1].lon, call.df[1].lat) = {}
    /\ ret.rows[1].lcz_class = NaN
    /\ ret.rows[2].lcz_class = Str("A")

(***************************************************************************)
(* lcz_processor.py: calculate_lcz_statistics.  The frame df is the        *)
(* sequence of its rows; temperatures are rationals; a standard deviation  *)
(* is kept as the square root of an exact variance.                        *)
(***************************************************************************)
Sqrt(v) == [type |-> "sqrt", of |-> v]

\* df.groupby('lcz_class'): the group keys are the non-missing classes (dropna),
\* in sorted order
GroupKeys(df) ==
    LET keys == {df[i].lcz_class.value :
                     i \in {j \in DOMAIN df : df[j].lcz_class # NaN}}
    IN  CHOOSE seq \in [1..Cardinality(keys) -> keys] :
            \A i, j \in DOMAIN seq : i < j => Rank(seq[i]) < Rank(seq[j])

\* a faulty variant of GroupValues: the temperatures of every attributed
\* sample, whatever its class
GroupValuesAnyClass(df, cls) ==
    LET rows == SelectSeq(df, LAMBDA r : r.lcz_class # NaN)
    IN  [k \in 1..Len(rows) |-> rows[k].temperature]

\* the 'temperature' values of the group of one class, in the order of df
GroupValues(df, cls) ==
    LET rows == SelectSeq(df, LAMBDA r : r.lcz_class = Str(cls))
    IN  [k \in 1..Len(rows) |-> rows[k].temperature]

\* ('mean_temp', 'mean')
Mean(values) == RatDivInt(SumSeq(values), Len(values))

\* the sum of the squared deviations from the mean
SquaredDeviations(values) ==
    SumSeq([k \in 1..Len(values) |->
               RatMul(RatSub(values[k], Mean(values)),
                      RatSub(values[k], Mean(values)))])

\* a faulty variant of Std: the population standard deviation (divisor n)
StdPopulation(values) ==
    Sqrt(RatDivInt(SquaredDeviations(values), Len(values)))

\* ('std_temp', 'std'): pandas' sample standard deviation (ddof = 1), missing
\* for a group of one value
Std(values) ==
    IF Len(values) < 2 THEN NaN
    ELSE Sqrt(RatDivInt(SquaredDeviations(values), Len(values) - 1))

\* ('min_temp', 'min')
Min(values) == CHOOSE v \in Range(values) : \A w \in Range(values) : RatLe(v, w)

\* ('max_temp', 'max')
Max(values) == CHOOSE v \in Range(values) : \A w \in Range(values) : RatLe(w, v)

\* stats['lcz_class'].map(LCZ_TEMPERATURE_DELTA): missing for an unknown label
LiteratureDeltaMap(cls) ==
    IF cls \in DOMAIN LCZ_TEMPERATURE_DELTA THEN LCZ_TEMPERATURE_DELTA[cls] ELSE NaN

\* the aggregated frame after reset_index(): one row for each group key
Aggregate(df) ==
    LET keys == GroupKeys(df)
    IN  [k \in 1..Len(keys) |->
            LET values == GroupValues(df, keys[k])
            IN  [lcz_class |-> keys[k],
                 mean_temp |-> Mean(values),
                 std_temp |-> Std(values),
                 min_temp |-> Min(values),
                 max_temp |-> Max(values),
                 count |-> Len(values),
                 temp_delta_expected |-> LiteratureDeltaMap(keys[k])]]

\* a faulty variant of ObservedDelta: 0 when class D has no row
ObservedDeltaDefaultZero(mean_temp, lcz_d_temp) ==
    IF Len(lcz_d_temp) > 0 THEN RatSub(mean_temp, lcz_d_temp[1]) ELSE Zero

\* temp_delta_observed: mean_temp - lcz_d_temp[0], np.nan without a row of D
ObservedDelta(mean_temp, lcz_d_temp) ==
    IF Len(lcz_d_temp) > 0 THEN RatSub(mean_temp, lcz_d_temp[1]) ELSE NaN

\* the frame before the final sort
WithObservedDelta(rows) ==
    LET d_rows == SelectSeq(rows, LAMBDA r : r.lcz_class = "D")
        lcz_d_temp == [k \in 1..Len(d_rows) |-> d_rows[k].mean_temp]
    IN  [k \in 1..Len(rows) |->
            [lcz_class |-> rows[k].lcz_class,
             mean_temp |-> rows[k].mean_temp,
             std_temp |-> rows[k].std_temp,
             min_temp |-> rows[k].min_temp,
             max_temp |-> rows[k].max_temp,
             count |-> rows[k].count,
             temp_delta_expected |-> rows[k].temp_delta_expected,
             temp_delta_observed |-> ObservedDelta(rows[k].mean_temp, lcz_d_temp)]]

\* stats.sort_values('mean_temp', ascending=False): the default sort kind
\* ('quicksort') is not stable, so rows of equal mean_temp come out in an order
\* that depends on the numpy build; every such order is an outcome
SortValuesMeanDescending(rows) ==
    {[k \in 1..Len(rows) |-> rows[p[k]]] :
        p \in {q \in [1..Len(rows) -> 1..Len(rows)] :
                  /\ \A i, j \in 1..Len(rows) : i # j => q[i] # q[j]
                  /\ \A i, j \in 1..Len(rows) :
                        i < j => RatLe(rows[q[j]].mean_temp, rows[q[i]].mean_temp)}}

\* LCZProcessor.calculate_lcz_statistics: the frames it can return
calculate_lcz_statistics(df) ==
    {DataFrame(rows) : rows \in SortValuesMeanDescending(WithObservedDelta(Aggregate(df)))}

(***************************************************************************)
(* The scenarios of the statistics: a frame of at most MaxSamples          *)
(* attributed or unattributed samples and one call.                        *)
(***************************************************************************)
MaxSamples == 3

\* the class cell of a sample: a label or missing
SampleClasses == {Str("2"), Str("A"), Str("D"), NaN}

MeasuredTemperatures == {Q(24, 1), Q(27, 1), Q(29, 1)}

AttributedRows == [lcz_class : SampleClasses, temperature : MeasuredTemperatures]

AttributedFrames == UNION {[1..n -> AttributedRows] : n \in 0..MaxSamples}

StatisticsCalls == [op : {"calculate_lcz_statistics"}, df : AttributedFrames]

InitStatistics ==
    /\ NoApplication
    /\ ret = Pending
    /\ gdf = <<>>
    /\ stats = <<>>
    /\ call \in StatisticsCalls

CalculateLczStatistics ==
    /\ ret = Pending
    /\ call.op = "calculate_lcz_statistics"
    /\ ret' \in calculate_lcz_statistics(call.df)
    /\ UNCHANGED <<call, gdf, stats, temperature_data, appVars>>

NextStatistics == CalculateLczStatistics

SpecStatistics == InitStatistics /\ [][NextStatistics]_vars

(***************************************************************************)
(* Properties of the statistics (checked under SpecStatistics).            *)
(***************************************************************************)
StatisticsDone == ret # Pending /\ call.op = "calculate_lcz_statistics"

\* the positions in df of the samples attributed to the class
SamplesOf(cls) == {i \in DOMAIN call.df : call.df[i].lcz_class = Str(cls)}

RECURSIVE SumTemperatures(_)
SumTemperatures(I) ==
    IF I = {} THEN Zero
    ELSE LET i == CHOOSE x \in I : TRUE
         IN  RatAdd(call.df[i].temperature, SumTemperatures(I \ {i}))

\* the sum over the samples of (temperature - m)^2
RECURSIVE SumSquares(_, _)
SumSquares(I, m) ==
    IF I = {} THEN Zero
    ELSE LET i == CHOOSE x \in I : TRUE
             dev == RatSub(call.df[i].temperature, m)
         IN  RatAdd(RatMul(dev, dev), SumSquares(I \ {i}, m))

StatLabels == {"2", "A", "D"}

\* the rows of the returned frame for the class
StatRows(cls) == {k \in DOMAIN ret.rows : ret.rows[k].lcz_class = cls}

\* C15: samples with a missing class are ignored; a class has exactly one row
\* when it has at least one sample and none otherwise; the row's count is the
\* number of the class's samples, its mean their mean, its min and max the
\* least and greatest of them.  Samples (D,27), (D,29), (A,24) give D mean 28,
\* count 2 and A mean 24, count 1.
C15_PerClassAggregation ==
    StatisticsDone =>
        /\ \A k \in DOMAIN ret.rows : ret.rows[k].lcz_class \in StatLabels
        /\ \A cls \in StatLabels :
              Cardinality(StatRows(cls)) = IF SamplesOf(cls) = {} THEN 0 ELSE 1
        /\ \A k \in DOMAIN ret.rows :
              LET row == ret.rows[k]
                  I == SamplesOf(row.lcz_class)
              IN  /\ row.count = Cardinality(I)
                  /\ RatMul(row.mean_temp, Q(row.count, 1)) = SumTemperatures(I)
                  /\ \E i \in I : call.df[i].temperature = row.min_temp
                  /\ \A i \in I : RatLe(row.min_temp, call.df[i].temperature)
                  /\ \E i \in I : call.df[i].temperature = row.max_temp
                  /\ \A i \in I : RatLe(call.df[i].temperature, row.max_temp)
        /\ call.df = <<[lcz_class |-> Str("D"), temperature |-> Q(27, 1)],
                       [lcz_class |-> Str("D"), temperature |-> Q(29, 1)],
                       [lcz_class |-> Str("A"), temperature |-> Q(24, 1)]>> =>
              /\ Len(ret.rows) = 2
              /\ ret.rows[1].lcz_class = "D" /\ ret.rows[1].mean_temp = Q(28, 1)
              /\ ret.rows[1].count = 2
              /\ ret.rows[2].lcz_class = "A" /\ ret.rows[2].mean_temp = Q(24, 1)
              /\ ret.rows[2].count = 1

\* C15 witness: two samples of one class with different temperatures, one
\* unattributed sample, and the one row they give.
C15_Witness ==
    /\ StatisticsDone
    /\ Len(call.df) = 3
    /\ \E i \in DOMAIN call.df : call.df[i].lcz_class = NaN
    /\ Len(ret.rows) = 1
    /\ ret.rows[1].count = 2
    /\ ret.rows[1].min_temp # ret.rows[1].max_temp

\* C16: the row of a class with exactly one sample has a missing std_temp,
\* never 0; the row of a class with n >= 2 samples has the square root of
\* (the sum of squared deviations from the class mean) / (n - 1).
C16_SampleStd ==
    StatisticsDone =>
        \A k \in DOMAIN ret.rows :
            LET row == ret.rows[k]
                I == SamplesOf(row.lcz_class)
                n == Cardinality(I)
                m == RatDivInt(SumTemperatures(I), n)
            IN  /\ n = 1 => row.std_temp = NaN /\ row.std_temp # Sqrt(Zero)
                /\ n >= 2 =>
                      /\ row.std_temp.type = "sqrt"
                      /\ RatMul(row.std_temp.of, Q(n - 1, 1)) = SumSquares(I, m)

\* C16 witness: a class with one sample beside a class with two different
\* samples, whose variance is not 0.
C16_Witness ==
    /\ StatisticsDone
    /\ \E k \in DOMAIN ret.rows : ret.rows[k].count = 1 /\ ret.rows[k].std_temp = NaN
    /\ \E k \in DOMAIN ret.rows :
          /\ ret.rows[k].count = 2
          /\ ret.rows[k].std_temp.type = "sqrt"
          /\ ret.rows[k].std_temp.of # Zero

\* C17: when class D has a row, every row's temp_delta_observed is its
\* mean_temp minus D's mean_temp, 0 for D itself; when D has no row, every
\* row's temp_delta_observed is missing.
C17_ObservedDelta ==
    StatisticsDone =>
        IF StatRows("D") # {}
        THEN \A k \in DOMAIN ret.rows : \A d \in StatRows("D") :
                 /\ ret.rows[k].temp_delta_observed
                       = RatSub(ret.rows[k].mean_temp, ret.rows[d].mean_temp)
                 /\ ret.rows[d].temp_delta_observed = Zero
        ELSE \A k \in DOMAIN ret.rows :
                 /\ ret.rows[k].temp_delta_observed = NaN
                 /\ ret.rows[k].temp_delta_observed # Zero

\* C17 witness: two classes without a sample of D, both deltas missing.
C17_Witness ==
    /\ StatisticsDone
    /\ SamplesOf("D") = {}
    /\ Len(ret.rows) = 2
    /\ ret.rows[1].temp_delta_observed = NaN
    /\ ret.rows[1].mean_temp # ret.rows[2].mean_temp

\* C18: the returned rows are in descending order of mean_temp and rows of
\* equal mean_temp are in ascending order of class label.
C18_Ordering ==
    StatisticsDone =>
        \A i, j \in DOMAIN ret.rows :
            i < j =>
                \/ RatLt(ret.rows[j].mean_temp, ret.rows[i].mean_temp)
                \/ /\ ret.rows[j].mean_temp = ret.rows[i].mean_temp
                   /\ Rank(ret.rows[i].lcz_class) < Rank(ret.rows[j].lcz_class)

(***************************************************************************)
(* Vector ingestion: lcz_processor.py (load_kml) and                       *)
(* lcz_processor_simple.py (parse_kml).  A KML document is the sequence of *)
(* its placemarks in document order; a placemark has the name of the layer *)
(* (folder) it is in, its name text as a sequence of characters, and       *)
(* either a polygon or no polygon (<<>>).                                  *)
(***************************************************************************)
IntValue(n) == [type |-> "int", value |-> n]

List(items) == [type |-> "list", items |-> items]

Exception(kind) == [type |-> "Exception", kind |-> kind]

RootLayer == "[CityName][Date][ExpertName]"

Digits ==
    ("0" :> 0) @@ ("1" :> 1) @@ ("2" :> 2) @@ ("3" :> 3) @@ ("4" :> 4) @@
    ("5" :> 5) @@ ("6" :> 6) @@ ("7" :> 7) @@ ("8" :> 8) @@ ("9" :> 9)

\* the characters of the class [0-9A-G]
ClassCharacters == DOMAIN Digits \cup {"A", "B", "C", "D", "E", "F", "G"}

\* int() of a run of decimal digits
RECURSIVE IntOf(_)
IntOf(chars) ==
    IF chars = <<>> THEN 0
    ELSE IntOf(SubSeq(chars, 1, Len(chars) - 1)) * 10 + Digits[chars[Len(chars)]]

\* the text of a sequence of characters
RECURSIVE Text(_)
Text(chars) == IF chars = <<>> THEN "" ELSE Head(chars) \o Text(Tail(chars))

\* lcz_processor_simple.LCZProcessor._extract_lcz_class: re.search(r'(\d+)',
\* name), the leftmost longest run of digits as an int, None without a digit
_extract_lcz_class(name) ==
    LET starts == {i \in DOMAIN name : name[i] \in DOMAIN Digits}
    IN  IF starts = {} THEN None
        ELSE LET first == CHOOSE i \in starts : \A j \in starts : i <= j
                 last == CHOOSE k \in first..Len(name) :
                             /\ \A j \in first..k : name[j] \in DOMAIN Digits
                             /\ k = Len(name) \/ name[k + 1] \notin DOMAIN Digits
             IN  IntValue(IntOf(SubSeq(name, first, last)))

\* lcz_processor_simple.LCZProcessor.parse_kml: one feature for each placemark
\* with a polygon, in document order, whatever _extract_lcz_class returned
RECURSIVE parse_kml(_)
parse_kml(placemarks) ==
    IF placemarks = <<>> THEN <<>>
    ELSE LET placemark == Head(placemarks)
             lcz_class == _extract_lcz_class(placemark.name)
         IN  (IF placemark.polygon # <<>>
              THEN <<[lcz_class |-> lcz_class,
                      name |-> Text(placemark.name),
                      geometry |-> placemark.polygon[1]]>>
              ELSE <<>>)
             \o parse_kml(Tail(placemarks))

\* lcz_processor_simple.LCZProcessor.extract_kmz: zipfile.ZipFile raises on a
\* file that is no archive; otherwise the path of a .kml member, None if the
\* archive has none.  A KMZ file is [zip_ok, kml], kml = <<>> or <<document>>.
extract_kmz(kmz) ==
    IF ~kmz.zip_ok THEN Exception("BadZipFile")
    ELSE IF kmz.kml = <<>> THEN None
    ELSE [type |-> "path", document |-> kmz.kml[1]]

\* lcz_processor_simple.LCZProcessor.process: the value of self.features and
\* the outcome; without a .kml member self.features stays as it was
process(features, kmz) ==
    LET kml_path == extract_kmz(kmz)
    IN  IF kml_path.type = "Exception" THEN [features |-> features, ret |-> kml_path]
        ELSE IF kml_path = None THEN [features |-> features, ret |-> features]
        ELSE [features |-> List(parse_kml(kml_path.document)),
              ret |-> List(parse_kml(kml_path.document))]

\* fiona.listlayers: the layer names in the order of their first placemark
RECURSIVE listlayers(_)
listlayers(placemarks) ==
    IF placemarks = <<>> THEN <<>>
    ELSE LET rest == listlayers(SubSeq(placemarks, 1, Len(placemarks) - 1))
             layer == placemarks[Len(placemarks)].layer
         IN  IF layer \in Range(rest) THEN rest ELSE Append(rest, layer)

\* gpd.read_file(kml_path, layer=layer): the placemarks of one layer
read_file(placemarks, layer) == SelectSeq(placemarks, LAMBDA p : p.layer = layer)

\* gdf['Name'].str.extract(r'^([0-9A-G]+)$')[0]: the whole name when it is a
\* non-empty run of the characters 0-9 and A-G, missing otherwise
ExtractName(name) ==
    IF name # <<>> /\ \A i \in DOMAIN name : name[i] \in ClassCharacters
    THEN Str(Text(name)) ELSE NaN

\* gdf.geometry.centroid of a rectangle, missing without a geometry
Centroid(polygon) ==
    IF polygon = <<>> THEN NaN
    ELSE [lat |-> Q(polygon[1].south + polygon[1].north, 2),
          lon |-> Q(polygon[1].west + polygon[1].east, 2)]

\* the frames of the layers that are loaded: every layer but the root layer
\* whose read does not raise, each row with its layer_name
RECURSIVE LayerFrames(_, _, _)
LayerFrames(placemarks, layers, unreadable) ==
    IF layers = <<>> THEN <<>>
    ELSE (IF Head(layers) # RootLayer /\ Head(layers) \notin unreadable
          THEN <<read_file(placemarks, Head(layers))>>
          ELSE <<>>)
         \o LayerFrames(placemarks, Tail(layers), unreadable)

\* pd.concat(gdfs, ignore_index=True)
RECURSIVE concat(_)
concat(gdfs) == IF gdfs = <<>> THEN <<>> ELSE Head(gdfs) \o concat(Tail(gdfs))

\* gdf_metric.geometry.area / 1_000_000: the area of the polygon projected to
\* EPSG:3857, kept as a term over the polygon
AreaKm2(polygon) ==
    IF polygon = <<>> THEN NaN ELSE [type |-> "area_km2", of |-> polygon[1]]

\* the columns load_kml adds to the rows that were read, given how the class
\* of a row is taken: ByLayer from layer_name, otherwise from Name
LoadedRows(rows, ByLayer) ==
    [k \in 1..Len(rows) |->
        LET lcz_class == IF ByLayer THEN Str(rows[k].layer)
                         ELSE ExtractName(rows[k].name)
        IN  [Name |-> Text(rows[k].name),
             lcz_class |-> lcz_class,
             temp_delta_expected |->
                 IF lcz_class = NaN THEN NaN ELSE LiteratureDeltaMap(lcz_class.value),
             geometry |-> rows[k].polygon,
             centroid |-> Centroid(rows[k].polygon),
             area_km2 |-> AreaKm2(rows[k].polygon)]]

\* sorted(gdf['lcz_class'].unique()) in the last log line: Python cannot order
\* a str and a float (NaN), so a frame with both raises TypeError
SortedClassesRaises(rows) ==
    /\ \E k \in DOMAIN rows : rows[k].lcz_class = NaN
    /\ \E k \in DOMAIN rows : rows[k].lcz_class # NaN

\* LCZProcessor.load_kml: the value of self.gdf and the outcome (None, or the
\* exception that is logged and raised again)
load_kml(placemarks, unreadable) ==
    LET layers == listlayers(placemarks)
        gdfs == LayerFrames(placemarks, layers, unreadable)
    IN  IF gdfs # <<>>
        THEN [gdf |-> DataFrame(LoadedRows(concat(gdfs), TRUE)), ret |-> None]
        ELSE IF layers = <<>> \/ layers[1] \in unreadable
        THEN [gdf |-> None, ret |-> Exception("DriverError")]
        ELSE LET rows == LoadedRows(read_file(placemarks, layers[1]), FALSE)
             IN  [gdf |-> DataFrame(rows),
                  ret |-> IF SortedClassesRaises(rows) THEN Exception("TypeError")
                          ELSE None]

(***************************************************************************)
(* lcz_raster_processor.py.  An image is a matrix of RGB pixels, img[y][x] *)
(* with y = 1 the top row; numpy hands the colour components on as uint8   *)
(* scalars, whose arithmetic with Python ints is exact under NumPy 1 and   *)
(* wraps modulo 256 under NumPy 2.                                         *)
(***************************************************************************)
LCZ_COLORS ==
    <<<<140, 0, 0>>, <<209, 0, 0>>, <<255, 0, 0>>, <<191, 77, 0>>,
      <<255, 102, 0>>, <<255, 153, 85>>, <<250, 238, 5>>, <<188, 188, 188>>,
      <<255, 204, 170>>, <<85, 85, 85>>, <<0, 106, 0>>, <<0, 170, 0>>,
      <<100, 133, 37>>, <<185, 219, 121>>, <<0, 0, 0>>, <<251, 247, 174>>,
      <<106, 106, 255>>>>

\* a uint8 result when the build wraps, the exact integer otherwise
Uint8(x, wraps) == IF wraps THEN x % 256 ELSE x

\* (r - lr) ** 2 + (g - lg) ** 2 + (b - lb) ** 2, the square of dist
SquaredDistance(color, lcz_color, wraps) ==
    LET sq(a, b) == Uint8(Uint8(a - b, wraps) * Uint8(a - b, wraps), wraps)
    IN  Uint8(Uint8(sq(color[1], lcz_color[1]) + sq(color[2], lcz_color[2]), wraps)
              + sq(color[3], lcz_color[3]), wraps)

\* LCZRasterProcessor.find_closest_lcz: the first class of least distance
\* (dist < min_dist is strict), returned when min_dist < 30, which for the
\* square root of an integer is min_dist^2 < 900
find_closest_lcz(color, wraps) ==
    LET closest_lcz ==
            CHOOSE lcz \in DOMAIN LCZ_COLORS :
                \A other \in DOMAIN LCZ_COLORS :
                    LET d == SquaredDistance(color, LCZ_COLORS[lcz], wraps)
                        e == SquaredDistance(color, LCZ_COLORS[other], wraps)
                    IN  d < e \/ (d = e /\ lcz <= other)
        min_dist_squared == SquaredDistance(color, LCZ_COLORS[closest_lcz], wraps)
    IN  IF min_dist_squared < 900 THEN IntValue(closest_lcz) ELSE None

\* tuple order of two colours, the order of the rows of np.unique(axis=0)
ColorLess(a, b) ==
    \/ a[1] < b[1]
    \/ a[1] = b[1] /\ a[2] < b[2]
    \/ a[1] = b[1] /\ a[2] = b[2] /\ a[3] < b[3]

\* the pixels img_array[y_start:y_end, x_start:x_end] as positions <<y, x>>,
\* counted from 1
CellPixels(y_start, y_end, x_start, x_end) ==
    (y_start + 1 .. y_end) \X (x_start + 1 .. x_end)

\* colors[np.argmax(counts)]: of the colours with the highest count, the first
\* in the sorted order of np.unique
DominantColor(image, pixels) ==
    LET count(c) == Cardinality({p \in pixels : image[p[1]][p[2]] = c})
        colors == {image[p[1]][p[2]] : p \in pixels}
    IN  CHOOSE c \in colors :
            \A other \in colors :
                \/ count(other) < count(c)
                \/ count(other) = count(c) /\ (c = other \/ ColorLess(c, other))

Minimum(a, b) == IF a < b THEN a ELSE b

\* the feature of the cell (row, col), if it has a class
CellFeature(image, bounds_coords, grid_size, wraps, row, col) ==
    LET height == Len(image)
        width == Len(image[1])
        cell_height == height \div grid_size
        cell_width == width \div grid_size
        geo_cell_height ==
            RatDivInt(RatSub(bounds_coords.north, bounds_coords.south), grid_size)
        geo_cell_width ==
            RatDivInt(RatSub(bounds_coords.east, bounds_coords.west), grid_size)
        pixels == CellPixels(row * cell_height,
                             Minimum((row + 1) * cell_height, height),
                             col * cell_width,
                             Minimum((col + 1) * cell_width, width))
        lcz_class == find_closest_lcz(DominantColor(image, pixels), wraps)
        lat_south == RatAdd(bounds_coords.south, RatMul(Q(row, 1), geo_cell_height))
        lon_west == RatAdd(bounds_coords.west, RatMul(Q(col, 1), geo_cell_width))
    IN  IF lcz_class # None
        THEN <<[lcz_class |-> lcz_class,
                cell |-> <<row, col>>,
                geometry |-> [west |-> lon_west, south |-> lat_south,
                              east |-> RatAdd(lon_west, geo_cell_width),
                              north |-> RatAdd(lat_south, geo_cell_height)]]>>
        ELSE <<>>

\* the features of the cells k, k + 1, ... in the order of the two loops
RECURSIVE GridFeatures(_, _, _, _, _)
GridFeatures(image, bounds_coords, grid_size, wraps, k) ==
    IF k >= grid_size * grid_size THEN <<>>
    ELSE CellFeature(image, bounds_coords, grid_size, wraps,
                     k \div grid_size, k % grid_size)
         \o GridFeatures(image, bounds_coords, grid_size, wraps, k + 1)

\* LCZRasterProcessor.create_grid_features: the value of self.features and
\* the outcome.  Without an image or bounds it returns [] and leaves
\* self.features alone; a cell without pixels (grid_size above the height or
\* the width) makes np.argmax raise ValueError on its empty counts.
create_grid_features(features, image, bounds_coords, grid_size, wraps) ==
    IF image = None \/ bounds_coords = None
    THEN [features |-> features, ret |-> List(<<>>)]
    ELSE IF Len(image.pixels) \div grid_size = 0
            \/ Len(image.pixels[1]) \div grid_size = 0
    THEN [features |-> features, ret |-> ValueError("attempt to get argmax of an empty sequence")]
    ELSE LET built == GridFeatures(image.pixels, bounds_coords.box, grid_size, wraps, 0)
         IN  [features |-> List(built), ret |-> List(built)]

(***************************************************************************)
(* The scenarios of ingestion: one document of at most MaxPlacemarks       *)
(* placemarks read by either vector backend, or one image of at most       *)
(* MaxImageSide x MaxImageSide pixels cut into at most MaxGridSize^2 cells.*)
(***************************************************************************)
MaxPlacemarks == 2
MaxImageSide == 2
MaxGridSize == 2

\* a layer named by a class, a layer named otherwise, and the root layer
LayerNames == {"2", "Parks", RootLayer}

\* "2" and "A" are class labels; "42" is a run of class characters that is
\* no label; "x" has neither a digit nor a class character
NameTexts == {<<"2">>, <<"A">>, <<"4", "2">>, <<"x">>}

Polygons == {[west |-> 0, south |-> 0, east |-> 2, north |-> 2]}

Placemarks == [layer : LayerNames, name : NameTexts, polygon : Opt(Polygons)]

KmlDocuments == UNION {[1..n -> Placemarks] : n \in 0..MaxPlacemarks}

\* LCZ 1's colour, a colour at distance sqrt(300) from it, and a grey that is
\* farther than 30 from every table colour
Palette == {<<140, 0, 0>>, <<150, 10, 10>>, <<128, 128, 128>>}

Images ==
    {[type |-> "image", pixels |-> m] :
        m \in UNION {[1..h -> [1..w -> Palette]] :
                        h \in 1..MaxImageSide, w \in 1..MaxImageSide}}

LatLonBoxes ==
    {[type |-> "dict",
      box |-> [north |-> Q(2, 1), south |-> Q(0, 1), east |-> Q(4, 1), west |-> Q(0, 1)]]}

LoadKmlCalls ==
    {c \in [op : {"load_kml"}, placemarks : KmlDocuments \ {<<>>},
            unreadable : SUBSET LayerNames] :
        c.unreadable \subseteq Range(listlayers(c.placemarks))}

ParseKmlCalls == [op : {"parse_kml"}, placemarks : KmlDocuments]

\* an archive with a document, an archive without a .kml member, and a file
\* that is no archive
KmzFiles ==
    [zip_ok : {TRUE}, kml : Opt(KmlDocuments)] \cup [zip_ok : {FALSE}, kml : {<<>>}]

ProcessCalls == [op : {"process"}, kmz : KmzFiles]

GridCalls ==
    [op : {"create_grid_features"}, image : Images \cup {None},
     bounds_coords : LatLonBoxes \cup {None}, grid_size : 1..MaxGridSize,
     wraps : BOOLEAN]

\* colours at distance 0, sqrt(300), exactly 30 and 31 from LCZ 1's colour,
\* which is the nearest table colour of each, and the grey
ProbeColors == Palette \cup {<<170, 0, 0>>, <<171, 0, 0>>}

FindClosestCalls == [op : {"find_closest_lcz"}, color : ProbeColors, wraps : BOOLEAN]

\* the constructors leave self.gdf = None and self.features = []
InitIngestion ==
    /\ NoApplication
    /\ ret = Pending
    /\ stats = <<>>
    /\ call \in LoadKmlCalls \cup ParseKmlCalls \cup ProcessCalls \cup GridCalls
                \cup FindClosestCalls
    /\ gdf = IF call.op = "load_kml" THEN None ELSE List(<<>>)

LoadKml ==
    /\ ret = Pending
    /\ call.op = "load_kml"
    /\ LET loaded == load_kml(call.placemarks, call.unreadable)
       IN  gdf' = loaded.gdf /\ ret' = loaded.ret
    /\ UNCHANGED <<call, stats, temperature_data, appVars>>

\* parse_kml sets self.features and returns it
ParseKml ==
    /\ ret = Pending
    /\ call.op = "parse_kml"
    /\ gdf' = List(parse_kml(call.placemarks))
    /\ ret' = List(parse_kml(call.placemarks))
    /\ UNCHANGED <<call, stats, temperature_data, appVars>>

Process ==
    /\ ret = Pending
    /\ call.op = "process"
    /\ LET processed == process(gdf, call.kmz)
       IN  gdf' = processed.features /\ ret' = processed.ret
    /\ UNCHANGED <<call, stats, temperature_data, appVars>>

FindClosestLcz ==
    /\ ret = Pending
    /\ call.op = "find_closest_lcz"
    /\ ret' = find_closest_lcz(call.color, call.wraps)
    /\ UNCHANGED <<call, gdf, stats, temperature_data, appVars>>

CreateGridFeatures ==
    /\ ret = Pending
    /\ call.op = "create_grid_features"
    /\ LET created == create_grid_features(gdf, call.image, call.bounds_coords,
                                            call.grid_size, call.wraps)
       IN  gdf' = created.features /\ ret' = created.ret
    /\ UNCHANGED <<call, stats, temperature_data, appVars>>

NextIngestion ==
    \/ LoadKml
    \/ ParseKml
    \/ Process
    \/ FindClosestLcz
    \/ CreateGridFeatures

SpecIngestion == InitIngestion /\ [][NextIngestion]_vars

(***************************************************************************)
(* Properties of ingestion (checked under SpecIngestion).                  *)
(***************************************************************************)
IngestionDone ==
    /\ ret # Pending
    /\ call.op \in {"load_kml", "parse_kml", "process", "create_grid_features"}

\* the ingestion ended without an exception
IngestionSucceeded == IngestionDone /\ ret.type \in {"None", "list"}

\* the zones of the catalog that was built: the rows of self.gdf that have a
\* geometry, or the features
CatalogZones ==
    IF call.op = "load_kml" THEN SelectSeq(gdf.rows, LAMBDA r : r.geometry # <<>>)
    ELSE gdf.items

\* the class cell holds a label of the known class set: a key of the string
\* tables for load_kml, a key of LCZ_CLASSES / LCZ_COLORS for the int backends
KnownClass(cell) ==
    \/ cell.type = "str" /\ cell.value \in DOMAIN LCZ_TEMPERATURE_DELTA
    \/ cell.type = "int" /\ cell.value \in DOMAIN LCZ_CLASSES

\* C19: after an ingestion by load_kml, parse_kml or create_grid_features,
\* every zone of the catalog has a class of the known class set; no zone is
\* present with a null, raw or guessed label.
C19_CatalogClassesKnown ==
    IngestionSucceeded =>
        \A k \in DOMAIN CatalogZones : KnownClass(CatalogZones[k].lcz_class)

VectorDone == ret # Pending /\ call.op \in {"load_kml", "parse_kml"}

\* the class the backend takes for a placemark of the document
PlacemarkClass(placemark) ==
    IF call.op = "parse_kml" THEN _extract_lcz_class(placemark.name)
    ELSE IF \E p \in Range(call.placemarks) :
                p.layer # RootLayer /\ p.layer \notin call.unreadable
    THEN Str(placemark.layer)
    ELSE ExtractName(placemark.name)

\* the placemarks with a polygon whose class is of the known class set
Resolved ==
    {i \in DOMAIN call.placemarks :
        /\ call.placemarks[i].polygon # <<>>
        /\ KnownClass(PlacemarkClass(call.placemarks[i]))}

\* the placemarks with a polygon whose class is not resolved
Unresolved ==
    {i \in DOMAIN call.placemarks :
        /\ call.placemarks[i].polygon # <<>>
        /\ ~KnownClass(PlacemarkClass(call.placemarks[i]))}

\* every layer of the document can be read
AllLayersReadable == call.op = "load_kml" => call.unreadable = {}

\* C20: a placemark with a polygon whose class cannot be resolved is left out
\* of the catalog, and the ingestion of the other placemarks goes on and
\* succeeds: the catalog has no zone of an unresolved class and holds no more
\* zones than the document has placemarks outside Unresolved.
C20_UnresolvedDropped ==
    (VectorDone /\ AllLayersReadable /\ Unresolved # {}) =>
        /\ IngestionSucceeded
        /\ \A k \in DOMAIN CatalogZones : KnownClass(CatalogZones[k].lcz_class)
        /\ Len(CatalogZones) <= Len(call.placemarks) - Cardinality(Unresolved)

\* a whole-file vector ingestion of a container that can be opened and read
OpenedVectorIngestion ==
    /\ ret # Pending
    /\ \/ call.op = "process" /\ call.kmz.zip_ok /\ call.kmz.kml # <<>>
       \/ call.op = "load_kml" /\ call.unreadable = {}

\* the placemarks of the ingested document
IngestedPlacemarks ==
    IF call.op = "process" THEN call.kmz.kml[1] ELSE call.placemarks

\* C21: a vector ingestion (process, load_kml) fails exactly when the
\* container cannot be opened or no placemark yields a valid geometry; for a
\* container that was opened it ends in an error when no placemark has a
\* polygon, instead of an empty catalog, and succeeds in every other case.
C21_FatalOnlyWithoutGeometry ==
    /\ (ret # Pending /\ call.op = "process" /\ ~call.kmz.zip_ok) =>
          ret.type = "Exception"
    /\ OpenedVectorIngestion =>
          (ret.type = "Exception"
              <=> \A i \in DOMAIN IngestedPlacemarks :
                      IngestedPlacemarks[i].polygon = <<>>)

\* the square of the Euclidean RGB distance of two colours
EuclideanSquared(a, b) ==
    (a[1] - b[1]) * (a[1] - b[1]) + (a[2] - b[2]) * (a[2] - b[2])
        + (a[3] - b[3]) * (a[3] - b[3])

\* the first class of the table at the least distance from the colour
NearestClass(color) ==
    CHOOSE lcz \in DOMAIN LCZ_COLORS :
        \A other \in DOMAIN LCZ_COLORS :
            \/ EuclideanSquared(color, LCZ_COLORS[lcz])
                  < EuclideanSquared(color, LCZ_COLORS[other])
            \/ /\ EuclideanSquared(color, LCZ_COLORS[lcz])
                     = EuclideanSquared(color, LCZ_COLORS[other])
               /\ lcz <= other

NearestSquared(color) == EuclideanSquared(color, LCZ_COLORS[NearestClass(color)])

\* C22: on a build with exact arithmetic find_closest_lcz returns the nearest
\* class for a colour whose nearest table colour is at distance at most 30
\* (distance 0 and distance exactly 30 included), and returns no class only
\* when the nearest distance exceeds 30.
C22_ColourTolerance ==
    (ret # Pending /\ call.op = "find_closest_lcz" /\ ~call.wraps) =>
        /\ NearestSquared(call.color) <= 30 * 30 =>
              ret = IntValue(NearestClass(call.color))
        /\ ret = None => NearestSquared(call.color) > 30 * 30

\* create_grid_features built the features of an image
GridBuilt ==
    /\ ret # Pending
    /\ call.op = "create_grid_features"
    /\ call.image # None
    /\ call.bounds_coords # None
    /\ ret.type = "list"

\* the pixel block img_array[y_start:y_end, x_start:x_end] of the cell
BlockOf(row, col) ==
    LET height == Len(call.image.pixels)
        width == Len(call.image.pixels[1])
        cell_height == height \div call.grid_size
        cell_width == width \div call.grid_size
    IN  CellPixels(row * cell_height, Minimum((row + 1) * cell_height, height),
                   col * cell_width, Minimum((col + 1) * cell_width, width))

\* the position of a pixel in the row-major scan of the image
ScanIndex(p) == (p[1] - 1) * Len(call.image.pixels[1]) + p[2]

\* of the colours with the highest count in the block, the one met first when
\* the block is scanned in row-major order
FirstEncounteredMode(pixels) ==
    LET image == call.image.pixels
        count(c) == Cardinality({p \in pixels : image[p[1]][p[2]] = c})
        colors == {image[p[1]][p[2]] : p \in pixels}
        modes == {c \in colors : \A other \in colors : count(other) <= count(c)}
        first(c) == CHOOSE p \in pixels :
                        /\ image[p[1]][p[2]] = c
                        /\ \A q \in pixels :
                              image[q[1]][q[2]] = c => ScanIndex(p) <= ScanIndex(q)
    IN  CHOOSE c \in modes :
            \A other \in modes : ScanIndex(first(c)) <= ScanIndex(first(other))

\* the classes of the features emitted for the cell (row, col)
ClassesOfCell(row, col) ==
    {ret.items[i].lcz_class : i \in {j \in DOMAIN ret.items :
                                        ret.items[j].cell = <<row, col>>}}

\* C23: every cell of the grid is classified by the most frequent colour of
\* its pixel block, ties going to the colour met first in the row-major scan
\* of the block: the cell has a feature exactly when that colour has a class,
\* and the feature carries that class.
C23_DominantColour ==
    GridBuilt =>
        \A row, col \in 0 .. call.grid_size - 1 :
            LET lcz_class == find_closest_lcz(FirstEncounteredMode(BlockOf(row, col)),
                                              call.wraps)
            IN  ClassesOfCell(row, col)
                    = IF lcz_class = None THEN {} ELSE {lcz_class}

\* the part of the bounding box that the pixels of a block depict, image row 0
\* lying at the northern edge and image column 0 at the western edge
DepictedBox(pixels) ==
    LET box == call.bounds_coords.box
        height == Len(call.image.pixels)
        width == Len(call.image.pixels[1])
        lat_per_pixel == RatDivInt(RatSub(box.north, box.south), height)
        lon_per_pixel == RatDivInt(RatSub(box.east, box.west), width)
        top == CHOOSE y \in {p[1] : p \in pixels} : \A p \in pixels : y <= p[1]
        bottom == CHOOSE y \in {p[1] : p \in pixels} : \A p \in pixels : p[1] <= y
        left == CHOOSE x \in {p[2] : p \in pixels} : \A p \in pixels : x <= p[2]
        right == CHOOSE x \in {p[2] : p \in pixels} : \A p \in pixels : p[2] <= x
    IN  [west |-> RatAdd(box.west, RatMul(Q(left - 1, 1), lon_per_pixel)),
         east |-> RatAdd(box.west, RatMul(Q(right, 1), lon_per_pixel)),
         north |-> RatSub(box.north, RatMul(Q(top - 1, 1), lat_per_pixel)),
         south |-> RatSub(box.north, RatMul(Q(bottom, 1), lat_per_pixel))]

\* the rectangle outer covers the rectangle inner
Covers(outer, inner) ==
    /\ RatLe(outer.west, inner.west)
    /\ RatLe(inner.east, outer.east)
    /\ RatLe(outer.south, inner.south)
    /\ RatLe(inner.north, outer.north)

\* C27: the rectangle of every feature emitted by create_grid_features covers
\* the part of the bounding box depicted by the pixel block that classified
\* its cell, image row 0 at the northern edge and column 0 at the western edge.
C27_GeographicPlacement ==
    GridBuilt =>
        \A i \in DOMAIN ret.items :
            Covers(ret.items[i].geometry,
                   DepictedBox(BlockOf(ret.items[i].cell[1], ret.items[i].cell[2])))

\* C28: on an image and a bounding box create_grid_features completes without
\* error for every grid size, every cell has a non-empty pixel block, every
\* pixel of the image lies in the block of some cell, and at most one feature
\* is emitted per cell.
C28_GridResolution ==
    (/\ ret # Pending
     /\ call.op = "create_grid_features"
     /\ call.image # None
     /\ call.bounds_coords # None) =>
        LET cells == (0 .. call.grid_size - 1) \X (0 .. call.grid_size - 1)
            image_pixels == (1 .. Len(call.image.pixels))
                                \X (1 .. Len(call.image.pixels[1]))
        IN  /\ ret.type = "list"
            /\ \A c \in cells : BlockOf(c[1], c[2]) # {}
            /\ \A p \in image_pixels : \E c \in cells : p \in BlockOf(c[1], c[2])
            /\ \A c \in cells : Cardinality(ClassesOfCell(c[1], c[2])) <= 1
            /\ Len(ret.items) <= call.grid_size * call.grid_size

(***************************************************************************)
(* The extent of a catalog: get_bounds and get_center of the two feature   *)
(* backends, called on a processor after its ingestion.                    *)
(***************************************************************************)
RatMinimum(S) == CHOOSE x \in S : \A y \in S : RatLe(x, y)

RatMaximum(S) == CHOOSE x \in S : \A y \in S : RatLe(y, x)

\* lcz_processor_simple.LCZProcessor.get_bounds: the least and greatest
\* coordinates of the bounds of the features' shapes
get_bounds(features) ==
    IF features = <<>> THEN None
    ELSE LET all_coords == {features[i].geometry : i \in DOMAIN features}
         IN  List(<<RatMinimum({b.west : b \in all_coords}),
                    RatMinimum({b.south : b \in all_coords}),
                    RatMaximum({b.east : b \in all_coords}),
                    RatMaximum({b.north : b \in all_coords})>>)

\* lcz_processor_simple.LCZProcessor.get_center
get_center(features) ==
    LET bounds == get_bounds(features)
    IN  IF bounds # None
        THEN List(<<RatDivInt(RatAdd(bounds.items[2], bounds.items[4]), 2),
                    RatDivInt(RatAdd(bounds.items[1], bounds.items[3]), 2)>>)
        ELSE None

\* LCZRasterProcessor.get_bounds: the LatLonBox of the document
RasterGetBounds(bounds_coords) ==
    IF bounds_coords # None
    THEN List(<<bounds_coords.box.west, bounds_coords.box.south,
                bounds_coords.box.east, bounds_coords.box.north>>)
    ELSE None

\* LCZRasterProcessor.get_center
RasterGetCenter(bounds_coords) ==
    IF bounds_coords # None
    THEN List(<<RatDivInt(RatAdd(bounds_coords.box.north, bounds_coords.box.south), 2),
                RatDivInt(RatAdd(bounds_coords.box.east, bounds_coords.box.west), 2)>>)
    ELSE None

\* two overlapping rectangles as the polygons of placemarks
ExtentBoxes ==
    {[west |-> Q(0, 1), south |-> Q(0, 1), east |-> Q(2, 1), north |-> Q(2, 1)],
     [west |-> Q(1, 1), south |-> Q(1, 1), east |-> Q(4, 1), north |-> Q(3, 1)]}

ExtentDocuments ==
    UNION {[1..n -> [layer : {"2"}, name : {<<"2">>}, polygon : Opt(ExtentBoxes)]] :
              n \in 0..MaxPlacemarks}

\* the features of a simple processor after process()
SimpleCatalogs == {parse_kml(d) : d \in ExtentDocuments}

\* the features of a raster processor after process() on a document with
\* the LatLonBox bounds_coords, completed or not
RasterCatalogs(bounds_coords) ==
    {create_grid_features(List(<<>>), image, bounds_coords, grid_size, wraps).features.items :
        image \in Images, grid_size \in 1..MaxGridSize, wraps \in BOOLEAN}

ExtentCalls ==
    [op : {"get_bounds", "get_center"}, backend : {"simple"}]
        \cup [op : {"get_bounds", "get_center"}, backend : {"raster"},
              bounds_coords : LatLonBoxes \cup {None}]

InitExtent ==
    /\ NoApplication
    /\ call \in ExtentCalls
    /\ gdf \in {List(features) :
                   features \in IF call.backend = "simple" THEN SimpleCatalogs
                                ELSE IF call.bounds_coords = None THEN {<<>>}
                                ELSE RasterCatalogs(call.bounds_coords)}
    /\ ret = Pending
    /\ stats = <<>>

GetBounds ==
    /\ ret = Pending
    /\ call.op = "get_bounds"
    /\ ret' = IF call.backend = "simple" THEN get_bounds(gdf.items)
              ELSE RasterGetBounds(call.bounds_coords)
    /\ UNCHANGED <<call, gdf, stats, temperature_data, appVars>>

GetCenter ==
    /\ ret = Pending
    /\ call.op = "get_center"
    /\ ret' = IF call.backend = "simple" THEN get_center(gdf.items)
              ELSE RasterGetCenter(call.bounds_coords)
    /\ UNCHANGED <<call, gdf, stats, temperature_data, appVars>>

NextExtent ==
    \/ GetBounds
    \/ GetCenter

SpecExtent == InitExtent /\ [][NextExtent]_vars

\* the box [min lon, min lat, max lon, max lat] over the extents of the zones
\* that are in the catalog
CatalogBox ==
    LET zones == {gdf.items[i].geometry : i \in DOMAIN gdf.items}
    IN  <<RatMinimum({z.west : z \in zones}), RatMinimum({z.south : z \in zones}),
          RatMaximum({z.east : z \in zones}), RatMaximum({z.north : z \in zones})>>

\* C24: on a non-empty catalog of either backend get_bounds returns the box
\* over the extents of the zones in the catalog and get_center the midpoint
\* of that box as [lat, lon]; on an empty catalog both return None.
C24_BoundsAndCentre ==
    (ret # Pending /\ call.op \in {"get_bounds", "get_center"}) =>
        IF gdf.items = <<>> THEN ret = None
        ELSE IF call.op = "get_bounds" THEN ret = List(CatalogBox)
        ELSE ret = List(<<RatDivInt(RatAdd(CatalogBox[2], CatalogBox[4]), 2),
                          RatDivInt(RatAdd(CatalogBox[1], CatalogBox[3]), 2)>>)

(***************************************************************************)
(* temperature_calculator.py: calculate_bulk_temperature_change            *)
(***************************************************************************)
\* a faulty variant of the base temperature: the temperature already modified
BaseTempAccumulating(temperature_data_, modified_temps, zone_id) ==
    modified_temps[zone_id]

\* base_temp = temperature_data[zone_id]
BaseTemp(temperature_data_, modified_temps, zone_id) == temperature_data_[zone_id]

\* the loop over zone_changes from the change k on; ties[k] is the side round()
\* takes on a tie in the k-th call of calculate_temperature_delta
RECURSIVE BulkLoop(_, _, _, _, _)
BulkLoop(zone_changes, temperature_data_, modified_temps, ties, k) ==
    IF k > Len(zone_changes) THEN modified_temps
    ELSE LET change == zone_changes[k]
             zone_id == change.zone_id
             result ==
                 IF zone_id \in DOMAIN temperature_data_
                 THEN calculate_temperature_delta(
                          change.from_lcz, change.to_lcz,
                          BaseTemp(temperature_data_, modified_temps, zone_id),
                          ties[k], FALSE)
                 ELSE None
         IN  BulkLoop(zone_changes, temperature_data_,
                      IF result # None
                      THEN [modified_temps EXCEPT ![zone_id] = result.new_temperature]
                      ELSE modified_temps,
                      ties, k + 1)

\* TemperatureCalculator.calculate_bulk_temperature_change: the caller's dict
\* after the call and the dict returned, which starts as a copy of it
calculate_bulk_temperature_change(zone_changes, temperature_data_, ties) ==
    [temperature_data |-> temperature_data_,
     ret |-> [type |-> "dict",
              items |-> BulkLoop(zone_changes, temperature_data_, temperature_data_,
                                 ties, 1)]]

(***************************************************************************)
(* The scenarios of the bulk change: at most MaxChanges changes applied to *)
(* the temperatures of at most two zones.                                  *)
(***************************************************************************)
MaxChanges == 2

\* the zones with a temperature, and a zone id that has none
ZoneIds == {"z1", "z2"}

ChangeZoneIds == ZoneIds \cup {"z9"}

\* temperatures with no and with three decimals
ZoneTemperatures == {Q(20, 1), Q(28005, 1000)}

TemperatureDicts == UNION {[ids -> ZoneTemperatures] : ids \in SUBSET ZoneIds}

\* LCZ 0 is not a key of LCZ_CLASSES; offsets 2.5 (LCZ 1) and 0 (LCZ 14)
ZoneChanges == [zone_id : ChangeZoneIds, from_lcz : {0, 1}, to_lcz : {1, 14}]

BulkCalls ==
    [op : {"calculate_bulk_temperature_change"},
     zone_changes : UNION {[1..n -> ZoneChanges] : n \in 0..MaxChanges},
     temperature_data : TemperatureDicts]

InitBulk ==
    /\ call \in BulkCalls
    /\ temperature_data = call.temperature_data
    /\ ret = Pending
    /\ gdf = <<>>
    /\ stats = <<>>
    /\ lcz_processor = <<>>
    /\ heap = <<>>
    /\ requests = <<>>
    /\ log = <<>>

CalculateBulkTemperatureChange ==
    /\ ret = Pending
    /\ call.op = "calculate_bulk_temperature_change"
    /\ \E ties \in [DOMAIN call.zone_changes -> BOOLEAN] :
         LET outcome == calculate_bulk_temperature_change(
                            call.zone_changes, temperature_data, ties)
         IN  /\ temperature_data' = outcome.temperature_data
             /\ ret' = outcome.ret
    /\ UNCHANGED <<call, gdf, stats, appVars>>

NextBulk == CalculateBulkTemperatureChange

SpecBulk == InitBulk /\ [][NextBulk]_vars

BulkDone == ret # Pending /\ call.op = "calculate_bulk_temperature_change"

\* the changes that name the zone with two known classes
ValidChanges(zone_id) ==
    {i \in DOMAIN call.zone_changes :
        /\ call.zone_changes[i].zone_id = zone_id
        /\ call.zone_changes[i].from_lcz \in DOMAIN LCZ_CLASSES
        /\ call.zone_changes[i].to_lcz \in DOMAIN LCZ_CLASSES}

\* the zone's input temperature plus the delta of the last valid change
LastChangeTarget(zone_id) ==
    LET last == CHOOSE i \in ValidChanges(zone_id) :
                    \A j \in ValidChanges(zone_id) : j <= i
        change == call.zone_changes[last]
    IN  RatAdd(call.temperature_data[zone_id],
               RatSub(LCZ_CLASSES[change.to_lcz].thermal_offset,
                      LCZ_CLASSES[change.from_lcz].thermal_offset))

\* the frame of the bulk change: the result has the zone ids of the input,
\* the input is unmodified, and a zone without a valid change keeps its
\* temperature
BulkFrame ==
    /\ ret.type = "dict"
    /\ DOMAIN ret.items = DOMAIN call.temperature_data
    /\ temperature_data = call.temperature_data
    /\ \A z \in DOMAIN call.temperature_data :
          ValidChanges(z) = {} => ret.items[z] = call.temperature_data[z]

\* C30 as stated: the result has the zone ids of the input, the input is
\* unmodified, a zone without a valid change keeps its temperature, and a
\* zone with valid changes gets its input temperature plus the delta of the
\* last of them.
C30_BulkExact ==
    BulkDone =>
        /\ BulkFrame
        /\ \A z \in DOMAIN call.temperature_data :
              ValidChanges(z) # {} => ret.items[z] = LastChangeTarget(z)

\* C30 amended: as above, but a zone with valid changes gets its input
\* temperature plus the delta of the last of them rounded to two decimals: a
\* multiple of 0.01 within 0.005 of it, equal to it when the input
\* temperature has at most two decimals.
C30_BulkRounded ==
    BulkDone =>
        /\ BulkFrame
        /\ \A z \in DOMAIN call.temperature_data :
              ValidChanges(z) # {} =>
                  /\ IsCenti(ret.items[z])
                  /\ RatLe(RatAbs(RatSub(ret.items[z], LastChangeTarget(z))), Q(5, 1000))
                  /\ IsCenti(call.temperature_data[z]) =>
                        ret.items[z] = LastChangeTarget(z)

\* C30 witness: two valid changes with different deltas were applied, one
\* after the other, to a zone whose temperature has three decimals.
C30_Witness ==
    /\ BulkDone
    /\ \E z \in DOMAIN call.temperature_data :
          /\ Cardinality(ValidChanges(z)) = 2
          /\ call.zone_changes[1].to_lcz # call.zone_changes[2].to_lcz
          /\ ~IsCenti(call.temperature_data[z])
          /\ ret.items[z] # call.temperature_data[z]

(***************************************************************************)
(* scenario_simulator.py: the remaining operations of ScenarioSimulator    *)
(***************************************************************************)
\* ScenarioSimulator.simulate_single_zone_change: gdf.loc[zone_id] raises
\* KeyError for a label that is not in the index 0..n-1, and .values[0]
\* raises IndexError for a class without a statistics row
simulate_single_zone_change(g, st, zone_id, new_class) ==
    IF zone_id \notin 0 .. Len(g) - 1 THEN Exception("KeyError")
    ELSE LET zone == g[zone_id + 1]
             old_class == zone.lcz_class
             old_temp == RowsOf(st, old_class)
             new_temp == RowsOf(st, new_class)
         IN  IF Len(old_temp) = 0 \/ Len(new_temp) = 0 THEN Exception("IndexError")
             ELSE [type |-> "dict",
                   zone_id |-> zone_id,
                   old_class |-> old_class,
                   new_class |-> new_class,
                   old_temp |-> old_temp[1].mean_temp,
                   new_temp |-> new_temp[1].mean_temp,
                   temp_change |-> RatSub(new_temp[1].mean_temp, old_temp[1].mean_temp),
                   area_km2 |-> zone.area_km2,
                   centroid_lat |-> zone.centroid_lat,
                   centroid_lon |-> zone.centroid_lon]

\* ', '.join(classes)
RECURSIVE JoinComma(_)
JoinComma(classes) ==
    IF classes = <<>> THEN ""
    ELSE IF Len(classes) = 1 THEN classes[1]
    ELSE classes[1] \o ", " \o JoinComma(Tail(classes))

\* f"{conversion_rate*100:.0f}%": the percentage rounded half to even, kept
\* as the integer that is printed
Percent(conversion_rate) ==
    LET x == RatMul(conversion_rate, Q(100, 1))
        q == x.n \div x.d
        r == x.n % x.d
    IN  [type |-> "percent",
         value |-> IF 2 * r < x.d THEN q
                   ELSE IF 2 * r > x.d THEN q + 1
                   ELSE IF q % 2 = 0 THEN q ELSE q + 1]

\* ScenarioSimulator.compare_scenarios: one row per urbanization or greening
\* scenario, numbered by its place in the list
RECURSIVE ComparisonData(_, _)
ComparisonData(scenarios, i) ==
    IF i > Len(scenarios) THEN <<>>
    ELSE LET scenario == scenarios[i]
         IN  (IF scenario.scenario_type = "urbanization"
              THEN <<[scenario_id |-> i,
                      type |-> "Urbanização",
                      from_classes |-> JoinComma(scenario.vegetation_classes),
                      to_class |-> scenario.target_class,
                      conversion_rate |-> Percent(scenario.conversion_rate),
                      area_affected_km2 |-> scenario.total_area_converted_km2,
                      temp_change |-> scenario.expected_temp_increase,
                      impact |-> IF RatGt(scenario.expected_temp_increase, Zero)
                                 THEN "Aquecimento" ELSE "Resfriamento"]>>
              ELSE IF scenario.scenario_type = "greening"
              THEN <<[scenario_id |-> i,
                      type |-> "Revegetação",
                      from_classes |-> JoinComma(scenario.urban_classes),
                      to_class |-> scenario.target_class,
                      conversion_rate |-> Percent(scenario.conversion_rate),
                      area_affected_km2 |-> scenario.total_area_converted_km2,
                      temp_change |-> scenario.expected_temp_decrease,
                      impact |-> IF RatGt(scenario.expected_temp_decrease, Zero)
                                 THEN "Aquecimento" ELSE "Resfriamento"]>>
              ELSE <<>>)
             \o ComparisonData(scenarios, i + 1)

compare_scenarios(scenarios) == DataFrame(ComparisonData(scenarios, 1))

\* try: scenarios.append(...) except ValueError: a warning is logged
TryAppend(result) == IF result.type = "ValueError" THEN <<>> ELSE <<result>>

\* ScenarioSimulator.create_what_if_scenarios: the four predefined scenarios
\* that can be simulated
create_what_if_scenarios(g, st) ==
    List(TryAppend(simulate_urbanization_scenario(g, st, <<"B", "D">>, "6", Q(3, 10)))
         \o TryAppend(simulate_urbanization_scenario(g, st, <<"A", "B", "D">>, "2", Q(1, 2)))
         \o TryAppend(simulate_greening_scenario(g, st, <<"6", "9">>, "B", Q(1, 5)))
         \o TryAppend(simulate_greening_scenario(g, st, <<"2", "3", "6">>, "A", Q(2, 5))))

\* a faulty variant of the catalog after a scenario: the filter applied in place
ScenarioCatalogFiltered(g, zones) == zones

\* self.lcz_processor.gdf after a scenario: the scenario filters a copy,
\* gdf = self.lcz_processor.gdf.copy(), into a new frame and assigns nothing
ScenarioCatalog(g, zones) == g

(***************************************************************************)
(* The scenarios of a session: a catalog and a statistics table held by a  *)
(* processor and a simulator, and up to MaxSessionCalls calls of the       *)
(* downstream operations, one after the other.                             *)
(***************************************************************************)
MaxSessionCalls == 3

MaxSessionZones == 2

SessionClasses == {"A", "2"}

\* two rectangles that overlap
SessionRectangles ==
    {[west |-> 0, south |-> 0, east |-> 2, north |-> 2],
     [west |-> 0, south |-> 0, east |-> 4, north |-> 2]}

\* the rows of LCZProcessor.gdf that the operations read
SessionZones ==
    {[lcz_class |-> cls,
      geometry |-> r,
      area_km2 |-> Q((r.east - r.west) * (r.north - r.south), 1),
      centroid_lat |-> Q(r.south + r.north, 2),
      centroid_lon |-> Q(r.west + r.east, 2)] :
        cls \in SessionClasses, r \in SessionRectangles}

SessionCatalogs == UNION {[1..n -> SessionZones] : n \in 0..MaxSessionZones}

\* statistics tables as calculate_lcz_statistics returns them
SessionStatsTables ==
    {st \in StatsTables(SessionClasses, ScenarioMeanTemps, 2) :
        \A i, j \in DOMAIN st :
            (i < j /\ st[i].mean_temp = st[j].mean_temp) =>
                Rank(st[i].lcz_class) < Rank(st[j].lcz_class)}

\* sample frames of no or one point, inside one, inside both and outside every
\* rectangle
SessionSampleFrames ==
    {<<>>} \cup {<<[lat |-> 1, lon |-> lon, temperature |-> 24]>> : lon \in {1, 3, 5}}

SessionAttributedFrames ==
    {<<>>} \cup {<<[lcz_class |-> cls, temperature |-> Q(24, 1)]>> :
                    cls \in {Str("A"), NaN}}

SessionClassLists == {<<"A">>, <<"2">>, <<"B">>}

\* the lists of scenarios given to compare_scenarios: the predefined ones and
\* the result of one simulated scenario
ScenarioLists(g, st) ==
    {create_what_if_scenarios(g, st).items}
        \cup {TryAppend(simulate_urbanization_scenario(g, st, classes, "2", Q(1, 2))) :
                 classes \in SessionClassLists}

InitSession ==
    /\ call = [op |-> "start"]
    /\ ret = Pending
    /\ gdf \in SessionCatalogs
    /\ stats \in SessionStatsTables
    /\ log = [calls |-> 0, failed |-> 0]
    /\ temperature_data = <<>>
    /\ lcz_processor = <<>>
    /\ heap = <<>>
    /\ requests = <<>>

\* the call is counted, and counted as failed when it raised
Logged(outcome) ==
    [calls |-> log.calls + 1,
     failed |-> log.failed + (IF outcome.type \in {"ValueError", "Exception"} THEN 1 ELSE 0)]

SessionAssignLczToPoints ==
    /\ log.calls < MaxSessionCalls
    /\ \E df \in SessionSampleFrames :
         /\ call' = [op |-> "assign_lcz_to_points", df |-> df]
         /\ ret' = assign_lcz_to_points(gdf, df)
    /\ log' = Logged(ret')
    /\ UNCHANGED <<gdf, stats, temperature_data, lcz_processor, heap, requests>>

SessionCalculateLczStatistics ==
    /\ log.calls < MaxSessionCalls
    /\ \E df \in SessionAttributedFrames :
         /\ call' = [op |-> "calculate_lcz_statistics", df |-> df]
         /\ ret' \in calculate_lcz_statistics(df)
    /\ log' = Logged(ret')
    /\ UNCHANGED <<gdf, stats, temperature_data, lcz_processor, heap, requests>>

SessionSimulateLczChange ==
    /\ log.calls < MaxSessionCalls
    /\ \E from_class, to_class \in SessionClasses :
         /\ call' = [op |-> "simulate_lcz_change", from_class |-> from_class,
                     to_class |-> to_class]
         /\ ret' = simulate_lcz_change(stats, from_class, to_class, Q(1, 2))
    /\ log' = Logged(ret')
    /\ UNCHANGED <<gdf, stats, temperature_data, lcz_processor, heap, requests>>

SessionSimulateSingleZoneChange ==
    /\ log.calls < MaxSessionCalls
    /\ \E zone_id \in 0 .. MaxSessionZones, new_class \in SessionClasses :
         /\ call' = [op |-> "simulate_single_zone_change", zone_id |-> zone_id,
                     new_class |-> new_class]
         /\ ret' = simulate_single_zone_change(gdf, stats, zone_id, new_class)
    /\ log' = Logged(ret')
    /\ UNCHANGED <<gdf, stats, temperature_data, lcz_processor, heap, requests>>

SessionSimulateUrbanizationScenario ==
    /\ log.calls < MaxSessionCalls
    /\ \E vegetation_classes \in SessionClassLists :
         /\ call' = [op |-> "simulate_urbanization_scenario",
                     vegetation_classes |-> vegetation_classes]
         /\ ret' = simulate_urbanization_scenario(
                       gdf, stats, vegetation_classes, "2", Q(1, 2))
         /\ gdf' = ScenarioCatalog(gdf, MatchingZones(gdf, vegetation_classes))
    /\ log' = Logged(ret')
    /\ UNCHANGED <<stats, temperature_data, lcz_processor, heap, requests>>

SessionSimulateGreeningScenario ==
    /\ log.calls < MaxSessionCalls
    /\ \E urban_classes \in SessionClassLists :
         /\ call' = [op |-> "simulate_greening_scenario", urban_classes |-> urban_classes]
         /\ ret' = simulate_greening_scenario(gdf, stats, urban_classes, "A", Q(1, 2))
         /\ gdf' = ScenarioCatalog(gdf, MatchingZones(gdf, urban_classes))
    /\ log' = Logged(ret')
    /\ UNCHANGED <<stats, temperature_data, lcz_processor, heap, requests>>

SessionCreateWhatIfScenarios ==
    /\ log.calls < MaxSessionCalls
    /\ call' = [op |-> "create_what_if_scenarios"]
    /\ ret' = create_what_if_scenarios(gdf, stats)
    /\ log' = Logged(ret')
    /\ UNCHANGED <<gdf, stats, temperature_data, lcz_processor, heap, requests>>

SessionCompareScenarios ==
    /\ log.calls < MaxSessionCalls
    /\ \E scenarios \in ScenarioLists(gdf, stats) :
         /\ call' = [op |-> "compare_scenarios", scenarios |-> scenarios]
         /\ ret' = compare_scenarios(scenarios)
    /\ log' = Logged(ret')
    /\ UNCHANGED <<gdf, stats, temperature_data, lcz_processor, heap, requests>>

NextSession ==
    \/ SessionAssignLczToPoints
    \/ SessionCalculateLczStatistics
    \/ SessionSimulateLczChange
    \/ SessionSimulateSingleZoneChange
    \/ SessionSimulateUrbanizationScenario
    \/ SessionSimulateGreeningScenario
    \/ SessionCreateWhatIfScenarios
    \/ SessionCompareScenarios

SpecSession == InitSession /\ [][NextSession]_vars

MaxConcurrent == 2

MaxRequests == 3

CatalogHandlers == {"get_lcz_data", "get_temperature_grid", "generate_static_map"}

\* LCZProcessor(KMZ_FILE_PATH): a processor without features; complete records
\* that process() has returned on it
NewProcessor == [features |-> <<>>, complete |-> FALSE]

\* what process() can build from the file: no zone, or zones
ProcessOutcomes == {<<>>, <<"zone">>}

\* a slot without a request
Idle ==
    [handler |-> "", pc |-> "idle", obj |-> 0, response |-> "",
     attempted |-> FALSE, before |-> "", unbuilt |-> FALSE]

InitApp ==
    /\ lcz_processor = <<>>
    /\ heap = <<>>
    /\ requests = [r \in 1..MaxConcurrent |-> Idle]
    /\ log = [started |-> 0, last |-> "none", overlap |-> FALSE]
    /\ call = <<>>
    /\ ret = Pending
    /\ gdf = <<>>
    /\ stats = <<>>
    /\ temperature_data = <<>>

\* a request arrives for one of the handlers; before records the outcome of
\* the last initialization so far, overlap that another request is in flight
Receive(r) ==
    /\ requests[r].pc = "idle"
    /\ log.started < MaxRequests
    /\ \E handler \in CatalogHandlers :
         requests' = [requests EXCEPT ![r] =
                         [Idle EXCEPT !.handler = handler, !.pc = "entry",
                                      !.before = log.last]]
    /\ log' = [log EXCEPT !.started = @ + 1,
                          !.overlap = @ \/ \E q \in DOMAIN requests :
                                               requests[q].pc # "idle"]
    /\ UNCHANGED <<lcz_processor, heap, callVars>>

\* if lcz_processor is None: initialize_lcz_data()
CheckNone(r) ==
    /\ requests[r].pc = "entry"
    /\ requests' = [requests EXCEPT ![r].pc =
                       IF lcz_processor = <<>> THEN "initialize" ELSE "respond"]
    /\ UNCHANGED <<lcz_processor, heap, log, callVars>>

\* initialize_lcz_data up to the assignment of the global: None is returned
\* when the file does not exist, otherwise lcz_processor = LCZProcessor(...)
Initialize(r) ==
    /\ requests[r].pc = "initialize"
    /\ \E exists \in BOOLEAN :
         IF ~exists
         THEN /\ requests' = [requests EXCEPT ![r].pc = "respond",
                                              ![r].attempted = TRUE]
              /\ log' = [log EXCEPT !.last = "missing"]
              /\ UNCHANGED <<lcz_processor, heap>>
         ELSE /\ heap' = Append(heap, NewProcessor)
              /\ lcz_processor' = <<Len(heap) + 1>>
              /\ requests' = [requests EXCEPT ![r].pc = "process",
                                              ![r].attempted = TRUE]
              /\ UNCHANGED log
    /\ UNCHANGED callVars

\* gdf = lcz_processor.process(): the global is read and process() starts on
\* the processor it refers to
ProcessBegin(r) ==
    /\ requests[r].pc = "process"
    /\ requests' = [requests EXCEPT ![r].pc = "processing",
                                    ![r].obj = lcz_processor[1]]
    /\ UNCHANGED <<lcz_processor, heap, log, callVars>>

\* process() stores the features it built and returns them
ProcessEnd(r) ==
    /\ requests[r].pc = "processing"
    /\ \E built \in ProcessOutcomes :
         /\ heap' = [heap EXCEPT ![requests[r].obj] =
                        [features |-> built, complete |-> TRUE]]
         /\ log' = [log EXCEPT !.last = IF built = <<>> THEN "empty" ELSE "loaded"]
    /\ requests' = [requests EXCEPT ![r].pc = "respond"]
    /\ UNCHANGED <<lcz_processor, callVars>>

\* get_lcz_data after the initialization
get_lcz_data(processor) ==
    IF processor # <<>> /\ processor[1].features # <<>> THEN "success" ELSE "failure"

\* get_temperature_grid after the initialization; temp_data is what the
\* weather service returned for the bounds of the catalog
get_temperature_grid(processor, temp_data) ==
    IF processor = <<>> \/ processor[1].features = <<>> THEN "failure"
    ELSE IF temp_data THEN "success" ELSE "failure"

\* generate_static_map after the initialization: only a missing processor is
\* answered with "Error: Unable to load LCZ data"
generate_static_map(processor) ==
    IF processor = <<>> THEN "failure" ELSE "success"

\* the rest of the handler: the global is read and the response is made;
\* unbuilt records that the processor read had not finished process()
Respond(r) ==
    /\ requests[r].pc = "respond"
    /\ LET processor == IF lcz_processor = <<>> THEN <<>>
                        ELSE <<heap[lcz_processor[1]]>>
       IN  \E temp_data \in BOOLEAN :
             requests' = [requests EXCEPT
                 ![r].pc = "done",
                 ![r].unbuilt = processor # <<>> /\ ~processor[1].complete,
                 ![r].response =
                     IF requests[r].handler = "get_lcz_data"
                     THEN get_lcz_data(processor)
                     ELSE IF requests[r].handler = "get_temperature_grid"
                     THEN get_temperature_grid(processor, temp_data)
                     ELSE generate_static_map(processor)]
    /\ UNCHANGED <<lcz_processor, heap, log, callVars>>

\* the response is sent and the thread serves the next request
Finish(r) ==
    /\ requests[r].pc = "done"
    /\ requests' = [requests EXCEPT ![r] = Idle]
    /\ UNCHANGED <<lcz_processor, heap, log, callVars>>

NextApp ==
    \E r \in 1..MaxConcurrent :
        \/ Receive(r)
        \/ CheckNone(r)
        \/ Initialize(r)
        \/ ProcessBegin(r)
        \/ ProcessEnd(r)
        \/ Respond(r)
        \/ Finish(r)

SpecApp == InitApp /\ [][NextApp]_vars

\* C25: with requests handled concurrently while lcz_processor is None, the
\* catalog is constructed at most once, so that nothing is written to the
\* shared state after its construction, and no request reads a processor
\* whose process() has not returned.
C25_BuiltOnceAndComplete ==
    /\ Len(heap) <= 1
    /\ \A r \in DOMAIN requests :
          requests[r].pc = "done" => ~requests[r].unbuilt

\* C29: when requests are served one after the other, a request arriving
\* after an initialization that loaded zones does not initialize again; a
\* request arriving after an attempt without zones (file missing, or no zone
\* built) attempts the initialization again; and a request answered while the
\* last attempt gave no zones is answered with a failure.
C29_LazyLifecycle ==
    ~log.overlap =>
        \A r \in DOMAIN requests :
            requests[r].pc = "done" =>
                /\ requests[r].before = "loaded" => ~requests[r].attempted
                /\ requests[r].before \in {"missing", "empty"} => requests[r].attempted
                /\ log.last \in {"missing", "empty"} => requests[r].response = "failure"

(***************************************************************************)
(* The whole model: the scenarios of every subsystem.                      *)
(***************************************************************************)
Init ==
    \/ InitPair \/ InitScenario \/ InitAttribution \/ InitStatistics
    \/ InitIngestion \/ InitExtent \/ InitBulk \/ InitSession
    \/ InitApp

Next ==
    \/ NextPair \/ NextScenario \/ NextAttribution \/ NextStatistics
    \/ NextIngestion \/ NextExtent \/ NextBulk \/ NextSession
    \/ NextApp

Spec == Init /\ [][Next]_vars

====
